---- MODULE Spec2Model ----
(***************************************************************************)
(* Model of the race replay engine (src/src/dashboard/replay_engine.py),   *)
(* of the frame loop of the replay endpoint                                *)
(* (src/src/api/routes/dashboard.py), of the figure builder of the replay  *)
(* page (src/src/dashboard/pages/replay.py), of the queries of RaceState   *)
(* (src/src/race_state.py), of the tools of the agent (src/src/tools.py),  *)
(* of its conversation loop (src/src/agent.py) and of the service that     *)
(* caches the race state (src/src/api/services.py).                        *)
(*                                                                         *)
(* Spec:       one call of get_standings_at_time on a lap table.           *)
(* SpecLap:    one lap query on a lap table.                               *)
(* SpecPoint:  one point query (lap, position, compound, track status,     *)
(*             in pit) on a raw lap table and a status log.                *)
(* SpecReplay: build_replay_data on a session, then the frame loop of the  *)
(*             endpoint or the figure builder of the page.                 *)
(* SpecBuild:  build_replay_data on sessions with and without laps,        *)
(*             results, telemetry and well-formed tables.                  *)
(* SpecDrs:    _build_drs_zones on the telemetry of one lap.               *)
(* SpecZone:   _build_drs_zones on a lap that is one long DRS run.         *)
(* SpecLoop:   the loop of build_replay_data over the drivers, one driver  *)
(*             at a time, in every order of the keys of pos_data.          *)
(* SpecLeader: build_replay_data and the frame loop on a race whose        *)
(*             leader retires.                                             *)
(* SpecRoster: one call of get_standings_at_time for the roster of the     *)
(*             results, whose drivers have any final status.               *)
(* SpecRace:   one RaceState query or tool call, answered by two race      *)
(*             states that share their first laps.                         *)
(* SpecAgent:  one run of run_agent against a model that raises, answers   *)
(*             or asks for tools.                                          *)
(* SpecService: calls of the routes on the RaceService singleton.          *)
(*                                                                         *)
(* Times are integers in milliseconds (the timing data has millisecond     *)
(* resolution), so 0.05 s is 50 and 120 s is 120000.  A missing value      *)
(* (None, NaN, NaT) is the integer None.                                   *)
(***************************************************************************)
EXTENDS Integers, Sequences, FiniteSets, TLC

VARIABLES
    laps,          \* session.laps: driver -> rows of the lap table
    results,       \* session.results: driver -> Status
    session_time,  \* the query time of the last query
    standings,     \* the list get_standings_at_time returned
    called,        \* whether get_standings_at_time has been called
    point,         \* the last point query and what it returned
    sample_interval,  \* the sample_interval of build_replay_data
    request,       \* who asked for the replay: the /replay endpoint or the page
    pos_data,      \* session.pos_data: driver number -> position samples
    car_data,      \* session.car_data: driver number -> telemetry samples
    pc,            \* where the replay request stands
    race_start,    \* meta["race_start"]
    race_end,      \* meta["race_end"]
    time_grid,     \* meta["time_grid"]
    frames,        \* meta["frames"]: frame index -> driver entries
    frames_out,    \* the frames of the /replay response
    fig_frames,    \* the animation frames of the replay page
    track_status,  \* session.track_status: the rows of the status log
    telemetry,     \* get_telemetry() of the candidate laps, the fastest first
    rotation_deg,  \* the rotation of session.get_circuit_info()
    corners,       \* the corners of session.get_circuit_info()
    track_outline, \* meta["track_x"], meta["track_y"]
    corner_data,   \* meta["corner_data"]
    drs_zones,     \* meta["drs_zones"]
    other_laps,    \* the lap table of a second race state
    as_of_lap,     \* the as_of_lap of the last RaceState query
    answer,        \* what the last RaceState query or tool call returned
    weather_data,  \* session.weather_data: the rows of the weather log
    pending,       \* the keys of pos_data the loop over the drivers has yet to visit
    agent,         \* one run of run_agent: its messages, tools_used and position
    service        \* RaceService: _instance, _race_state and the calls made

inputVars == <<laps, results>>
standingsVars == <<standings, called>>
sessionVars == <<sample_interval, pos_data, car_data>>
metaVars == <<race_start, race_end, time_grid, frames>>
replayVars == <<sample_interval, request, pos_data, car_data, pc, race_start,
                race_end, time_grid, frames, frames_out, fig_frames>>
circuitVars == <<track_status, telemetry, rotation_deg, corners>>
overlayVars == <<track_outline, corner_data, drs_zones>>
raceVars == <<other_laps, as_of_lap, answer, weather_data>>
appVars == <<pending, agent, service>>
vars == <<laps, results, session_time, standings, called, point, sample_interval,
          request, pos_data, car_data, pc, race_start, race_end, time_grid, frames,
          frames_out, fig_frames, track_status, telemetry, rotation_deg, corners,
          track_outline, corner_data, drs_zones, other_laps, as_of_lap, answer,
          weather_data, pending, agent, service>>

None == -1

\* ---------------------------------------------------------------- bounds

\* The lap table holds at most MaxRows rows over all drivers.
MaxRows == 4

\* At most MaxRetired drivers of the results have a non-finishing Status.
MaxRetired == 1

\* The point queries: a driver has at most MaxLaps rows, whose times lie in
\* 0..MaxTime.
MaxLaps == 2
MaxTime == 4

\* The pit entries and exits lie at 10 s, 20 s, ..., MaxPit * 10 s.
MaxPit == 4

\* The telemetry of a lap has MaxDrs samples: room for a run of five and a
\* run of six.
MaxDrs == 12

\* Samples of the longest DRS run of a lap.
MaxRun == 36

\* Tool calls in one response of the model.
MaxCalls == 2

\* Calls of POST /load.
MaxLoads == 4

\* Grid intervals of the longest race with a leader that retires.
MaxFrames == 20

\* The replay: floats have MantissaBits significant bits, the session's
\* instants are the floats among the first MaxTick multiples of 0.25 s, the
\* sample interval is at most MaxInterval quarters of a second, and a driver
\* has at most MaxSamples position samples.
MantissaBits == 5
MaxTick == 36
MaxInterval == 6
MaxSamples == 2

\* ---------------------------------------------------------- session data

\* Abbreviations of session.results, in results order.
Drivers == <<"VER", "HAM", "LEC">>

DriverSet == {Drivers[i] : i \in 1..Len(Drivers)}

\* Lap duration of each driver, ms: lap k of a driver completes at k * pace.
Pace == [d \in DriverSet |->
           CASE d = "VER" -> 90000 [] d = "HAM" -> 90030 [] OTHER -> 90080]

\* A row of the lap table: lap k from start to tm at position p, on a
\* medium tyre fitted at the start of the race, without a pit stop.
LapRow(k, start, tm, p) ==
    [LapNumber |-> k, LapStartTime |-> start, Time |-> tm, Position |-> p,
     Compound |-> "MEDIUM", TyreLife |-> k, PitInTime |-> None, PitOutTime |-> None]

\* Lap k of driver d starts when lap k - 1 ends and completes at k * Pace[d];
\* its Position is NaN (None) or a classification rank.
LapRows(d, k) ==
    {LapRow(k, (k - 1) * Pace[d], k * Pace[d], p) :
        p \in {None} \cup (1..Len(Drivers))}

RECURSIVE RowsOf(_, _)
RowsOf(d, n) ==
    IF n = 0 THEN {<<>>}
    ELSE {Append(s, r) : s \in RowsOf(d, n - 1), r \in LapRows(d, n)}

\* The lap tables of at most MaxRows rows; a leader that is two laps ahead
\* of a classified driver takes four of them.
LapTables ==
    UNION {[VER : RowsOf("VER", n[1]), HAM : RowsOf("HAM", n[2]),
            LEC : RowsOf("LEC", n[3])] :
              n \in {m \in [1..3 -> 0..(MaxRows - 1)] : m[1] + m[2] + m[3] <= MaxRows}}

\* ------------------------------------------------------- lookup builders

\* _to_float: None for NaT/NaN, else the value in seconds (here ms).
to_float(val) == val

\* A bug: the rows are taken in the order of the table.
sort_values_unsorted(rows) == rows

RECURSIVE insert_by_lap(_, _)
insert_by_lap(sorted, r) ==
    IF sorted = <<>> THEN <<r>>
    ELSE IF r.LapNumber < Head(sorted).LapNumber THEN <<r>> \o sorted
    ELSE <<Head(sorted)>> \o insert_by_lap(Tail(sorted), r)

RECURSIVE sort_rows(_, _)
sort_rows(rows, k) ==
    IF k = 0 THEN <<>> ELSE insert_by_lap(sort_rows(rows, k - 1), rows[k])

\* d.sort_values("LapNumber") of the rows of one driver.
sort_values(rows) == sort_rows(rows, Len(rows))

RECURSIVE lap_entries(_, _)
lap_entries(rows, k) ==
    IF k > Len(rows) THEN <<>>
    ELSE (IF to_float(rows[k].Time) # None
          THEN <<[t |-> to_float(rows[k].Time), lap |-> rows[k].LapNumber]>>
          ELSE <<>>)
         \o lap_entries(rows, k + 1)

\* laps["Driver"].unique(): the drivers that have a row.
drivers_of(lp) == {d \in DOMAIN lp : Len(lp[d]) > 0}

build_lap_lookup(lp) ==
    [d \in drivers_of(lp) |-> lap_entries(sort_values(lp[d]), 1)]

RECURSIVE position_entries(_, _)
position_entries(rows, k) ==
    IF k > Len(rows) THEN <<>>
    ELSE (IF to_float(rows[k].Time) # None /\ rows[k].Position # None
          THEN <<[t |-> to_float(rows[k].Time), pos |-> rows[k].Position]>>
          ELSE <<>>)
         \o position_entries(rows, k + 1)

build_position_lookup(lp) ==
    [d \in drivers_of(lp) |-> position_entries(sort_values(lp[d]), 1)]

\* str(row.get("Compound", "UNKNOWN")) of a missing value is "nan", and a
\* missing TyreLife counts 0.
RECURSIVE compound_entries(_, _)
compound_entries(rows, k) ==
    IF k > Len(rows) THEN <<>>
    ELSE (IF to_float(rows[k].Time) # None
          THEN <<[t |-> to_float(rows[k].Time),
                  compound |-> IF rows[k].Compound = "" THEN "nan"
                               ELSE rows[k].Compound,
                  life |-> IF rows[k].TyreLife = None THEN 0 ELSE rows[k].TyreLife]>>
          ELSE <<>>)
         \o compound_entries(rows, k + 1)

build_compound_lookup(lp) ==
    [d \in drivers_of(lp) |-> compound_entries(sort_values(lp[d]), 1)]

RECURSIVE cumtime_entries(_, _)
cumtime_entries(rows, k) ==
    IF k > Len(rows) THEN <<>>
    ELSE (IF to_float(rows[k].Time) # None
          THEN <<[lap |-> rows[k].LapNumber, t |-> to_float(rows[k].Time)]>>
          ELSE <<>>)
         \o cumtime_entries(rows, k + 1)

build_cumtime_lookup(lp) ==
    [d \in drivers_of(lp) |-> cumtime_entries(sort_values(lp[d]), 1)]

\* "Lap" in status, over the Status values of the model.
contains_lap(status) == status \in {"+1 Lap", "+2 Laps", "+3 Laps", "Lapped"}

\* retired_drivers of build_replay_data: the drivers whose Status is no
\* finishing classification.
retired_drivers(res) ==
    {d \in DOMAIN res :
        /\ res[d] # ""
        /\ res[d] \notin {"Finished", "+1 Lap", "+2 Laps", "+3 Laps"}
        /\ ~contains_lap(res[d])}

\* The status codes of the log in the order of their strings; "8" has no
\* name.
StatusCodes == <<"1", "2", "4", "5", "6", "7", "8">>

\* status_names.get(code, code)
status_name(code) ==
    CASE code = "1" -> "Green" [] code = "2" -> "Yellow" [] code = "4" -> "Safety Car"
      [] code = "5" -> "Red Flag" [] code = "6" -> "VSC" [] code = "7" -> "VSC Ending"
      [] OTHER -> code

code_rank(code) == CHOOSE i \in DOMAIN StatusCodes : StatusCodes[i] = code

\* The order of the tuples (t, code, name); the name follows from the code.
status_less(a, b) ==
    a.t < b.t \/ (a.t = b.t /\ code_rank(a.code) < code_rank(b.code))

RECURSIVE insert_status(_, _)
insert_status(sorted, e) ==
    IF sorted = <<>> THEN <<e>>
    ELSE IF status_less(e, Head(sorted)) THEN <<e>> \o sorted
    ELSE <<Head(sorted)>> \o insert_status(Tail(sorted), e)

\* sorted(entries) over the rows of the log whose Time is not NaT.
RECURSIVE status_entries(_, _)
status_entries(ts, k) ==
    IF k = 0 THEN <<>>
    ELSE IF to_float(ts[k].Time) = None THEN status_entries(ts, k - 1)
    ELSE insert_status(status_entries(ts, k - 1),
                       [t |-> to_float(ts[k].Time), code |-> ts[k].Status,
                        name |-> status_name(ts[k].Status)])

\* An empty log gives an empty lookup.
build_track_status_lookup(ts) == status_entries(ts, Len(ts))

\* _build_pit_events: the rows with a PitInTime or a PitOutTime, in the
\* order of the table, as events of their driver.
RECURSIVE pit_rows(_, _)
pit_rows(rows, k) ==
    IF k > Len(rows) THEN <<>>
    ELSE (IF rows[k].PitInTime # None \/ rows[k].PitOutTime # None
          THEN <<[lap |-> rows[k].LapNumber, in_t |-> to_float(rows[k].PitInTime),
                  out_t |-> to_float(rows[k].PitOutTime)]>>
          ELSE <<>>)
         \o pit_rows(rows, k + 1)

build_pit_events(lp) ==
    [d \in {e \in DOMAIN lp : pit_rows(lp[e], 1) # <<>>} |-> pit_rows(lp[d], 1)]

\* --------------------------------------------------------- query helpers

\* A bug: a lap completed at exactly the query time is not counted.
RECURSIVE scan_lap_strict(_, _, _, _)
scan_lap_strict(entries, st, i, lap) ==
    IF i > Len(entries) THEN lap
    ELSE IF st > entries[i].t
         THEN scan_lap_strict(entries, st, i + 1, entries[i].lap)
    ELSE lap

RECURSIVE scan_lap(_, _, _, _)
scan_lap(entries, st, i, lap) ==
    IF i > Len(entries) THEN lap
    ELSE IF st >= entries[i].t THEN scan_lap(entries, st, i + 1, entries[i].lap)
    ELSE lap

Entries(lookup, driver) ==
    IF driver \in DOMAIN lookup THEN lookup[driver] ELSE <<>>

get_current_lap(driver, st, lap_lookup) ==
    LET lap == scan_lap(Entries(lap_lookup, driver), st, 1, 0)
    IN IF lap > 0 THEN lap ELSE 1

RECURSIVE scan_pos(_, _, _, _)
scan_pos(entries, st, i, pos) ==
    IF i > Len(entries) THEN pos
    ELSE IF st >= entries[i].t THEN scan_pos(entries, st, i + 1, entries[i].pos)
    ELSE pos

get_current_position(driver, st, pos_lookup) ==
    scan_pos(Entries(pos_lookup, driver), st, 1, None)

RECURSIVE scan_compound(_, _, _, _)
scan_compound(entries, st, i, cur) ==
    IF i > Len(entries) THEN cur
    ELSE IF st >= entries[i].t
         THEN scan_compound(entries, st, i + 1,
                            [compound |-> entries[i].compound, life |-> entries[i].life])
    ELSE cur

\* A bug: before the first entry the compound of the first entry is returned.
get_current_compound_first(driver, st, compound_lookup) ==
    LET entries == Entries(compound_lookup, driver)
    IN scan_compound(entries, st, 1,
                     IF entries = <<>> THEN [compound |-> "UNKNOWN", life |-> 0]
                     ELSE [compound |-> entries[1].compound, life |-> entries[1].life])

get_current_compound(driver, st, compound_lookup) ==
    scan_compound(Entries(compound_lookup, driver), st, 1,
                  [compound |-> "UNKNOWN", life |-> 0])

RECURSIVE scan_status(_, _, _, _)
scan_status(entries, st, i, cur) ==
    IF i > Len(entries) THEN cur
    ELSE IF st >= entries[i].t
         THEN scan_status(entries, st, i + 1,
                          [code |-> entries[i].code, name |-> entries[i].name])
    ELSE cur

get_current_track_status(st, ts_lookup) ==
    scan_status(ts_lookup, st, 1, [code |-> "1", name |-> "Green"])

\* ------------------------------------------------- get_standings_at_time

RETIRE_GRACE == 120000
NOISE_FLOOR == 50

\* entries[-1][1] of the driver's cumulative-time list, None when it is empty.
last_known_time(driver, cumtime_lookup) ==
    LET e == Entries(cumtime_lookup, driver)
    IN IF Len(e) = 0 THEN None ELSE e[Len(e)].t

\* A bug: the final status is not looked at.
is_retired_any_status(driver, st, cumtime_lookup, retired) ==
    /\ last_known_time(driver, cumtime_lookup) # None
    /\ st > last_known_time(driver, cumtime_lookup) + RETIRE_GRACE

\* A bug: a driver without a cumulative time counts as retired at once.
is_retired_without_time(driver, st, cumtime_lookup, retired) ==
    /\ driver \in retired
    /\ \/ last_known_time(driver, cumtime_lookup) = None
       \/ st > last_known_time(driver, cumtime_lookup) + RETIRE_GRACE

\* A bug: the grace window closes at exactly 120 s.
is_retired_at_grace(driver, st, cumtime_lookup, retired) ==
    /\ driver \in retired
    /\ last_known_time(driver, cumtime_lookup) # None
    /\ st >= last_known_time(driver, cumtime_lookup) + RETIRE_GRACE

is_retired(driver, st, cumtime_lookup, retired) ==
    /\ driver \in retired
    /\ last_known_time(driver, cumtime_lookup) # None
    /\ st > last_known_time(driver, cumtime_lookup) + RETIRE_GRACE

\* The reversed scan: the last entry (highest index) with t <= session_time.
RECURSIVE scan_cum(_, _, _)
scan_cum(entries, st, i) ==
    IF i = 0 THEN None
    ELSE IF entries[i].t <= st THEN entries[i].t
    ELSE scan_cum(entries, st, i - 1)

cum_time_at(driver, st, cumtime_lookup) ==
    LET e == Entries(cumtime_lookup, driver) IN scan_cum(e, st, Len(e))

standing_entry(driver, st, pos_lookup, lap_lookup, cumtime_lookup, retired) ==
    [driver   |-> driver,
     position |-> get_current_position(driver, st, pos_lookup),
     lap      |-> get_current_lap(driver, st, lap_lookup),
     cum_time |-> cum_time_at(driver, st, cumtime_lookup),
     retired  |-> is_retired(driver, st, cumtime_lookup, retired)]

\* A bug: the key leaves the retired flag out.
sort_key_position_only(s) ==
    <<0,
      IF s.position = None THEN 1 ELSE 0,
      IF s.position = None \/ s.position = 0 THEN 99 ELSE s.position>>

\* key=lambda x: (x["retired"], x["position"] is None, x["position"] or 99)
sort_key(s) ==
    <<IF s.retired THEN 1 ELSE 0,
      IF s.position = None THEN 1 ELSE 0,
      IF s.position = None \/ s.position = 0 THEN 99 ELSE s.position>>

KeyLess(a, b) ==
    \/ a[1] < b[1]
    \/ a[1] = b[1] /\ a[2] < b[2]
    \/ a[1] = b[1] /\ a[2] = b[2] /\ a[3] < b[3]

\* list.sort is stable: an element goes after every element whose key is
\* not greater than its own.
RECURSIVE insert_sorted(_, _, _)
insert_sorted(sorted, s, i) ==
    IF i > Len(sorted) THEN Append(sorted, s)
    ELSE IF KeyLess(sort_key(s), sort_key(sorted[i]))
         THEN SubSeq(sorted, 1, i - 1) \o <<s>> \o SubSeq(sorted, i, Len(sorted))
         ELSE insert_sorted(sorted, s, i + 1)

RECURSIVE sort_standings(_, _)
sort_standings(lst, n) ==
    IF n = 0 THEN <<>>
    ELSE insert_sorted(sort_standings(lst, n - 1), lst[n], 1)

\* num / den rounded to the nearest integer, ties to the even one.
RoundHalfEven(num, den) ==
    LET q == num \div den
        r == num % den
    IN IF 2 * r < den THEN q
       ELSE IF 2 * r > den THEN q + 1
       ELSE IF q % 2 = 0 THEN q ELSE q + 1

\* f"+{abs(secs):.1f}s": the value rounded to one decimal.  A tie is
\* rounded to the even tenth, which is what the format does for a value the
\* float holds exactly (0.25, 0.75); the lap tables of the standings give no
\* other tie.
fmt_secs(ms) ==
    LET a == IF ms < 0 THEN -ms ELSE ms
        tenths == RoundHalfEven(a, 100)
    IN "+" \o ToString(tenths \div 10) \o "." \o ToString(tenths % 10) \o "s"

\* A bug: the plural is never formed.
fmt_laps_singular(diff) == "+" \o ToString(diff) \o " LAP"

\* f"+{diff} LAP{'S' if diff > 1 else ''}"
fmt_laps(diff) ==
    "+" \o ToString(diff) \o " LAP" \o (IF diff > 1 THEN "S" ELSE "")

\* A bug: a difference of exactly 0.05 s is rendered.
secs_str_inclusive(ms) == IF ms >= NOISE_FLOOR THEN fmt_secs(ms) ELSE ""

\* f"+{abs(secs):.1f}s" if secs > 0.05 else ""
secs_str(ms) == IF ms > NOISE_FLOOR THEN fmt_secs(ms) ELSE ""

\* A bug: the second entry is taken for the leader.
gap_entry_second(sorted, i, prev_cum) ==
    LET s == sorted[i]
        leader_lap == sorted[2].lap
        leader_cum == sorted[2].cum_time
        gap == IF i = 2 \/ s.position = None THEN ""
               ELSE IF s.lap < leader_lap THEN fmt_laps(leader_lap - s.lap)
               ELSE IF leader_cum # None /\ s.cum_time # None
                    THEN secs_str(s.cum_time - leader_cum)
               ELSE ""
    IN [driver |-> s.driver, position |-> s.position, lap |-> s.lap,
        retired |-> s.retired, gap |-> gap, interval |-> gap]

\* One pass of the gap loop: the entry at index i with its gap and interval,
\* and without its cum_time.
gap_entry(sorted, i, prev_cum) ==
    LET s == sorted[i]
        leader_lap == sorted[1].lap
        leader_cum == sorted[1].cum_time
        gap == IF i = 1 \/ s.position = None THEN ""
               ELSE IF s.lap < leader_lap THEN fmt_laps(leader_lap - s.lap)
               ELSE IF leader_cum # None /\ s.cum_time # None
                    THEN secs_str(s.cum_time - leader_cum)
               ELSE ""
        interval == IF i = 1 \/ s.position = None THEN ""
                    ELSE IF s.lap < leader_lap THEN gap
                    ELSE IF leader_cum # None /\ s.cum_time # None
                         THEN (IF prev_cum # None /\ i > 1
                               THEN secs_str(s.cum_time - prev_cum)
                               ELSE gap)
                    ELSE ""
    IN [driver |-> s.driver, position |-> s.position, lap |-> s.lap,
        retired |-> s.retired, gap |-> gap, interval |-> interval]

\* A bug: prev_cum stays the leader's cumulative time.
next_prev_cum_leader(s, prev_cum) == prev_cum

\* prev_cum after the entry s: its cumulative time when it has one.
next_prev_cum(s, prev_cum) ==
    IF s.cum_time # None THEN s.cum_time ELSE prev_cum

\* A bug: an entry without a position is left out of the list.
RECURSIVE gap_loop_classified(_, _, _, _)
gap_loop_classified(sorted, i, prev_cum, done) ==
    IF i > Len(sorted) THEN done
    ELSE gap_loop_classified(
             sorted, i + 1, next_prev_cum(sorted[i], prev_cum),
             IF sorted[i].position = None THEN done
             ELSE Append(done, gap_entry(sorted, i, prev_cum)))

\* The gap loop: done holds the finished entries.
RECURSIVE gap_loop(_, _, _, _)
gap_loop(sorted, i, prev_cum, done) ==
    IF i > Len(sorted) THEN done
    ELSE gap_loop(sorted, i + 1, next_prev_cum(sorted[i], prev_cum),
                  Append(done, gap_entry(sorted, i, prev_cum)))

get_standings_at_time(st, drivers, pos_lookup, lap_lookup, cumtime_lookup, retired) ==
    LET raw == [i \in 1..Len(drivers) |->
                  standing_entry(drivers[i], st, pos_lookup, lap_lookup,
                                 cumtime_lookup, retired)]
        sorted == sort_standings(raw, Len(raw))
    IN IF Len(sorted) = 0 THEN <<>>
       ELSE gap_loop(sorted, 1, sorted[1].cum_time, <<>>)

\* The truth value of an optional float: None and 0.0 are false.
truthy(v) == v # None /\ v # 0

PIT_WINDOW == 30000

\* A bug: a pit entry without an exit counts for ever.
event_matches_open(pe, st) ==
    \/ truthy(pe.in_t) /\ truthy(pe.out_t) /\ pe.in_t <= st /\ st <= pe.out_t
    \/ truthy(pe.in_t) /\ ~truthy(pe.out_t) /\ pe.in_t <= st

\* The two tests of _is_in_pit on one event.
event_matches(pe, st) ==
    \/ truthy(pe.in_t) /\ truthy(pe.out_t) /\ pe.in_t <= st /\ st <= pe.out_t
    \/ truthy(pe.in_t) /\ ~truthy(pe.out_t) /\ pe.in_t <= st
           /\ st <= pe.in_t + PIT_WINDOW

\* _is_in_pit of replay_data
is_in_pit(driver, st, pit_events) ==
    \E k \in DOMAIN Entries(pit_events, driver) :
        event_matches(Entries(pit_events, driver)[k], st)

\* ------------------------------------------------------------ behaviour

\* No replay has been requested and nothing is built.
NoReplay ==
    /\ sample_interval = 0
    /\ request = "none"
    /\ pos_data = <<>>
    /\ car_data = <<>>
    /\ pc = "idle"
    /\ race_start = None
    /\ race_end = None
    /\ time_grid = <<>>
    /\ frames = <<>>
    /\ frames_out = <<>>
    /\ fig_frames = <<>>

\* No status log, no circuit information and no lap telemetry.
NoCircuit ==
    /\ track_status = <<>>
    /\ telemetry = <<>>
    /\ rotation_deg = 0
    /\ corners = <<>>

\* No overlay has been built.
NoOverlay ==
    /\ track_outline = [x |-> <<>>, y |-> <<>>]
    /\ corner_data = [x |-> <<>>, y |-> <<>>, numbers |-> <<>>]
    /\ drs_zones = <<>>

\* No race state is cached.
NoState == [kind |-> "none"]

\* The class RaceService after import: _instance and _race_state are None.
\* The record also counts the objects made and the loads, and keeps the
\* objects get_instance returned, the state the last successful load built
\* and the last response of a route.
NoService ==
    [instance |-> None, race_state |-> NoState, created |-> 0, returned |-> {},
     loads |-> 0, succeeded |-> 0, last_built |-> NoState, response |-> ""]

\* No build is under way, no agent run and no call of the service.
NoApp ==
    /\ pending = <<>>
    /\ agent = [pc |-> "idle"]
    /\ service = NoService

\* No RaceState query has been made.
NoRace ==
    /\ other_laps = <<>>
    /\ as_of_lap = 0
    /\ answer = [kind |-> "none"]
    /\ weather_data = <<>>

LapTimes(lp) ==
    UNION {{lp[d][k].Time : k \in DOMAIN lp[d]} : d \in DOMAIN lp} \ {None}

\* The breakpoints of the step functions: the start, every lap completion,
\* and 119 s, 120 s and 121 s after the last completion of a driver listed
\* as non-finishing.
QueryTimes(lp, res) ==
    {0} \cup LapTimes(lp)
        \cup UNION {{tm + 119000, tm + RETIRE_GRACE, tm + 121000} :
                       tm \in {last_known_time(d, build_cumtime_lookup(lp)) :
                                  d \in retired_drivers(res)} \ {None}}

ResultTables ==
    {r \in [DriverSet -> {"Finished", "Retired"}] :
        Cardinality(retired_drivers(r)) <= MaxRetired}

Init ==
    /\ laps \in LapTables
    /\ results \in ResultTables
    /\ session_time = 0
    /\ standings = <<>>
    /\ called = FALSE
    /\ point = [kind |-> "none"]
    /\ NoReplay
    /\ NoCircuit
    /\ NoOverlay
    /\ NoRace
    /\ NoApp

\* replay_data's call for one frame time: the roster is the results order.
Standings ==
    /\ ~called
    /\ LET pos_lookup == build_position_lookup(laps)
           lap_lookup == build_lap_lookup(laps)
           cumtime_lookup == build_cumtime_lookup(laps)
           retired == retired_drivers(results)
       IN \E st \in QueryTimes(laps, results) :
            /\ session_time' = st
            /\ standings' = get_standings_at_time(st, Drivers, pos_lookup, lap_lookup,
                                                  cumtime_lookup, retired)
    /\ called' = TRUE
    /\ UNCHANGED <<inputVars, point, replayVars, circuitVars, overlayVars, raceVars, appVars>>

Next == Standings

Spec == Init /\ [][Next]_vars

\* --------------------------------------------------------- point queries

\* The rows of one driver over the instants T: lap k starts at the instant
\* lap k - 1 ended, the instants increase, and a row's Time is the lap's end
\* or NaT.
RECURSIVE ChainRows(_, _, _, _, _)
ChainRows(n, k, from, T, p) ==
    IF n = 0 THEN {<<>>}
    ELSE UNION {
           {<<LapRow(k, from, tm, p)>> \o rest :
               tm \in {None, e}, rest \in ChainRows(n - 1, k + 1, e, T, p)} :
           e \in {i \in T : i > from}}

ChainSeqs ==
    UNION {ChainRows(n, 1, s, 0..MaxTime, None) : n \in 0..MaxLaps, s \in 0..1}

SmallLapTables == [VER : ChainSeqs, HAM : ChainSeqs, LEC : {<<>>}]

InitLap ==
    /\ laps \in SmallLapTables
    /\ results = [d \in DriverSet |-> "Finished"]
    /\ session_time = 0
    /\ standings = <<>>
    /\ called = FALSE
    /\ point = [kind |-> "none"]
    /\ NoReplay
    /\ NoCircuit
    /\ NoOverlay
    /\ NoRace
    /\ NoApp

CurrentLap ==
    /\ point.kind = "none"
    /\ \E d \in DriverSet, st \in 0..(MaxTime + 1) :
         /\ session_time' = st
         /\ point' = [kind |-> "lap", driver |-> d,
                      value |-> get_current_lap(d, st, build_lap_lookup(laps))]
    /\ UNCHANGED <<inputVars, standingsVars, replayVars, circuitVars, overlayVars,
                   raceVars, appVars>>

NextLap == CurrentLap

SpecLap == InitLap /\ [][NextLap]_vars

\* The rows in every order of the table.
Orderings(rows) ==
    {[i \in DOMAIN rows |-> rows[f[i]]] :
        f \in {g \in [DOMAIN rows -> DOMAIN rows] :
                  \A i, j \in DOMAIN rows : i # j => g[i] # g[j]}}

\* The rows as they are, or with no Compound and no TyreLife.
TyreVariants(rows) ==
    {rows, [k \in DOMAIN rows |-> [rows[k] EXCEPT !.Compound = "", !.TyreLife = None]]}

\* The rows of one driver in a raw lap table: laps that end one after the
\* other, classified or not, in any order of the table.
RawSeqs ==
    UNION {Orderings(r) :
             r \in UNION {TyreVariants(c) :
                            c \in ChainSeqs
                                  \cup UNION {ChainRows(n, 1, 0, 0..MaxTime, 1) :
                                                n \in 1..MaxLaps}}}

\* The status logs of up to two rows, in any order.
StatusRows == [Time : {None, 1, 3}, Status : {"2", "4", "8"}]

StatusLogs == {<<>>} \cup {<<a>> : a \in StatusRows}
                     \cup {<<a, b>> : a \in StatusRows, b \in StatusRows}

FixedStatusLog == <<[Time |-> 3, Status |-> "4"], [Time |-> 1, Status |-> "2"]>>

\* The pit times: every 10 s.
PitInstants == {10000 * k : k \in 1..MaxPit}

\* Up to two rows of one driver, each with or without a pit entry and a pit
\* exit.
PitRows(k) ==
    {[LapRow(k, 0, None, 1) EXCEPT !.PitInTime = i, !.PitOutTime = o] :
        i \in {None} \cup PitInstants, o \in {None} \cup PitInstants}

PitSeqs ==
    {<<>>} \cup {<<a>> : a \in PitRows(1)}
           \cup {<<a, b>> : a \in PitRows(1), b \in PitRows(2)}

\* The times around the pit entries and exits of the table.
PitQueryTimes(lp) ==
    LET ins == UNION {{lp[d][k].PitInTime : k \in DOMAIN lp[d]} : d \in DOMAIN lp}
                 \ {None}
        outs == UNION {{lp[d][k].PitOutTime : k \in DOMAIN lp[d]} : d \in DOMAIN lp}
                  \ {None}
    IN {5000} \cup UNION {{i - 1, i, i + 5000, i + PIT_WINDOW, i + PIT_WINDOW + 1} :
                            i \in ins}
              \cup UNION {{o, o + 1} : o \in outs}

InitPoint ==
    /\ results = [d \in DriverSet |-> "Finished"]
    /\ session_time = 0
    /\ standings = <<>>
    /\ called = FALSE
    /\ point = [kind |-> "none"]
    /\ NoReplay
    /\ telemetry = <<>>
    /\ rotation_deg = 0
    /\ corners = <<>>
    /\ NoOverlay
    /\ NoRace
    /\ NoApp
    /\ \/ /\ laps \in [VER : RawSeqs, HAM : {<<LapRow(1, 0, 2, 2)>>}, LEC : {<<>>}]
          /\ track_status = FixedStatusLog
       \/ /\ laps = [VER |-> <<LapRow(1, 0, 2, 1)>>, HAM |-> <<>>, LEC |-> <<>>]
          /\ track_status \in StatusLogs
       \/ /\ laps \in [VER : PitSeqs, HAM : {<<>>}, LEC : {<<>>}]
          /\ track_status = <<>>

CurrentPosition ==
    /\ point.kind = "none"
    /\ \E d \in DriverSet, st \in 0..(MaxTime + 1) :
         /\ session_time' = st
         /\ point' = [kind |-> "position", driver |-> d,
                      value |-> get_current_position(d, st, build_position_lookup(laps))]
    /\ UNCHANGED <<inputVars, standingsVars, replayVars, circuitVars, overlayVars,
                   raceVars, appVars>>

CurrentCompound ==
    /\ point.kind = "none"
    /\ \E d \in DriverSet, st \in 0..(MaxTime + 1) :
         /\ session_time' = st
         /\ point' = [kind |-> "compound", driver |-> d,
                      value |-> get_current_compound(d, st, build_compound_lookup(laps))]
    /\ UNCHANGED <<inputVars, standingsVars, replayVars, circuitVars, overlayVars,
                   raceVars, appVars>>

CurrentTrackStatus ==
    /\ point.kind = "none"
    /\ \E st \in 0..(MaxTime + 1) :
         /\ session_time' = st
         /\ point' = [kind |-> "status",
                      value |-> get_current_track_status(
                                    st, build_track_status_lookup(track_status))]
    /\ UNCHANGED <<inputVars, standingsVars, replayVars, circuitVars, overlayVars,
                   raceVars, appVars>>

\* "inPit": _is_in_pit(s["driver"], t) of replay_data
IsInPit ==
    /\ point.kind = "none"
    /\ \E d \in DriverSet, st \in PitQueryTimes(laps) :
         /\ session_time' = st
         /\ point' = [kind |-> "pit", driver |-> d,
                      value |-> is_in_pit(d, st, build_pit_events(laps))]
    /\ UNCHANGED <<inputVars, standingsVars, replayVars, circuitVars, overlayVars,
                   raceVars, appVars>>

NextPoint ==
    CurrentLap \/ CurrentPosition \/ CurrentCompound \/ CurrentTrackStatus \/ IsInPit

SpecPoint == InitPoint /\ [][NextPoint]_vars

\* ------------------------------------------------------------- time grid

\* Floating point. The times of a session are multiples of 0.25 s, in
\* milliseconds, held in binary floats of MantissaBits significant bits: the
\* result of every addition, subtraction, multiplication and division is
\* rounded to the nearest such float, ties to the even mantissa, as IEEE 754
\* doubles do with 53 bits.
Tick(k) == 250 * k

RECURSIVE Pow2(_)
Pow2(n) == IF n = 0 THEN 1 ELSE 2 * Pow2(n - 1)

RECURSIVE BitLen(_)
BitLen(n) == IF n = 0 THEN 0 ELSE 1 + BitLen(n \div 2)

\* The integer k >= 0 rounded to MantissaBits significant bits.
round_bits(k) ==
    IF BitLen(k) <= MantissaBits THEN k
    ELSE LET q == Pow2(BitLen(k) - MantissaBits) IN q * RoundHalfEven(k, q)

\* The float nearest to n >= 0 ms, n a multiple of 0.25 s.
fl(n) == Tick(round_bits(n \div Tick(1)))

\* ceil of the float nearest to a / b, for a >= 0 and b > 0.
ceil_fl_div(a, b) ==
    LET k == a \div b
        len == BitLen(k)
    IN IF a = 0 THEN 0
       ELSE IF k = 0 THEN 1
       ELSE IF len >= MantissaBits
            THEN LET q == Pow2(len - MantissaBits) IN q * RoundHalfEven(a, b * q)
       ELSE LET Q == Pow2(MantissaBits - len)
            IN (RoundHalfEven(a * Q, b) + Q - 1) \div Q

\* Item i (from 0) of np.arange: the first two are start and start + step,
\* the others start + i * delta with delta the difference of the first two.
arange_item(start, step, i) ==
    LET next == fl(start + step)
        delta == fl(next - start)
    IN IF i = 0 THEN start
       ELSE IF i = 1 THEN next
       ELSE fl(start + fl(i * delta))

\* np.arange(start, stop, step) for step > 0: ceil((stop - start) / step)
\* items, the length being computed in floating point.
arange(start, stop, step) ==
    LET n == IF stop <= start THEN 0 ELSE ceil_fl_div(fl(stop - start), step)
    IN [i \in 1..n |-> arange_item(start, step, i - 1)]

\* Series.min() and Series.max() skip NaN and give NaN for no value.
series_min(S) == IF S = {} THEN None ELSE CHOOSE x \in S : \A y \in S : x <= y

series_max(S) == IF S = {} THEN None ELSE CHOOSE x \in S : \A y \in S : x >= y

lap_start_min(lp) ==
    series_min(UNION {{lp[d][k].LapStartTime : k \in DOMAIN lp[d]} : d \in DOMAIN lp}
               \ {None})

lap_time_max(lp) ==
    series_max(UNION {{lp[d][k].Time : k \in DOMAIN lp[d]} : d \in DOMAIN lp}
               \ {None})

\* ------------------------------------------------------- build_replay_data

\* results: DriverNumber and Abbreviation of every driver, in results order.
DriverNumbers == <<"1", "44", "16">>

\* driver_map: DriverNumber -> Abbreviation for the rows of results, in the
\* order of the rows.
driver_map(res) ==
    SelectSeq([i \in DOMAIN DriverNumbers |->
                  [num |-> DriverNumbers[i], code |-> Drivers[i]]],
              LAMBDA e : e.code \in DOMAIN res)

\* list(meta["driver_map"].values())
drivers_list(res) == [i \in DOMAIN driver_map(res) |-> driver_map(res)[i].code]

\* driver_map.get(str(driver_num), str(driver_num))
driver_code(num, res) ==
    LET dm == driver_map(res)
    IN IF \E i \in DOMAIN dm : dm[i].num = num
       THEN dm[CHOOSE i \in DOMAIN dm : dm[i].num = num].code
       ELSE num

\* An interpolated value is a fraction n / d; NaN has d = 0.
NaN == [n |-> 0, d |-> 0]

RECURSIVE Gcd(_, _)
Gcd(a, b) == IF b = 0 THEN a ELSE Gcd(b, a % b)

Rat(n, d) == LET g == Gcd(n, d) IN [n |-> n \div g, d |-> d \div g]

isnan(v) == v.d = 0

\* to_numeric(errors="coerce") and .values: a missing value is NaN.
as_value(v) == IF v = None THEN NaN ELSE Rat(v, 1)

\* A bug: outside the samples the first or the last value is held, which is
\* np.interp without left and right.
np_interp_hold(x, xp, fp) ==
    LET n == Len(xp)
    IN IF x < xp[1] THEN as_value(fp[1])
       ELSE IF x >= xp[n] THEN as_value(fp[n])
       ELSE LET j == CHOOSE j \in 1..(n - 1) : xp[j] <= x /\ x < xp[j + 1]
            IN IF xp[j] = x THEN as_value(fp[j])
               ELSE IF fp[j] = None \/ fp[j + 1] = None THEN NaN
               ELSE Rat(fp[j] * (xp[j + 1] - xp[j]) + (fp[j + 1] - fp[j]) * (x - xp[j]),
                        xp[j + 1] - xp[j])

\* np.interp(x, xp, fp, left=np.nan, right=np.nan) for one x, xp increasing
\* and not empty: NaN outside [xp[1], xp[n]], the sample's value at a sample,
\* the line through the two neighbours between them.
np_interp(x, xp, fp) ==
    LET n == Len(xp)
    IN IF x < xp[1] \/ x > xp[n] THEN NaN
       ELSE IF x = xp[n] THEN as_value(fp[n])
       ELSE LET j == CHOOSE j \in 1..(n - 1) : xp[j] <= x /\ x < xp[j + 1]
            IN IF xp[j] = x THEN as_value(fp[j])
               ELSE IF fp[j] = None \/ fp[j + 1] = None THEN NaN
               ELSE Rat(fp[j] * (xp[j + 1] - xp[j]) + (fp[j + 1] - fp[j]) * (x - xp[j]),
                        xp[j + 1] - xp[j])

\* _safe_float, in tenths, and _safe_int.
safe_float(v) == IF isnan(v) THEN 0 ELSE RoundHalfEven(10 * v.n, v.d)

safe_int(v) == IF isnan(v) THEN 0 ELSE RoundHalfEven(v.n, v.d)

Column(rows, name) == [k \in DOMAIN rows |-> rows[k][name]]

\* dropna(subset=["SessionTimeS", "X", "Y"]); the samples come in time order,
\* which sort_values keeps.
pos_rows(rows) ==
    SelectSeq(rows, LAMBDA r : r.SessionTime # None /\ r.X # None /\ r.Y # None)

\* dropna(subset=["SessionTimeS"])
car_rows(rows) == SelectSeq(rows, LAMBDA r : r.SessionTime # None)

\* ---------------------------------------------------------------- geometry

\* Float arithmetic on fractions; NaN spreads.
RatAdd(a, b) ==
    IF isnan(a) \/ isnan(b) THEN NaN ELSE Rat(a.n * b.d + b.n * a.d, a.d * b.d)

RatSub(a, b) ==
    IF isnan(a) \/ isnan(b) THEN NaN ELSE Rat(a.n * b.d - b.n * a.d, a.d * b.d)

RECURSIVE rat_sum(_, _)
rat_sum(vals, k) ==
    IF k = 0 THEN Rat(0, 1)
    ELSE IF isnan(vals[k]) THEN rat_sum(vals, k - 1)
    ELSE RatAdd(rat_sum(vals, k - 1), vals[k])

\* np.nanmean: the mean of the values that are not NaN, NaN when there is
\* none.
nanmean(vals) ==
    LET n == Cardinality({k \in DOMAIN vals : ~isnan(vals[k])})
        total == rat_sum(vals, Len(vals))
    IN IF n = 0 THEN NaN ELSE Rat(total.n, total.d * n)

\* _rotate_arrays for one point and a rotation by a multiple of 90 degrees,
\* whose cosine and sine are taken as exact: cx + dx * cos - dy * sin and
\* cy + dx * sin + dy * cos.  A NaN in x or in y makes both NaN, as
\* NaN * 0 is NaN.
rotate_point(x, y, deg, cx, cy) ==
    LET dx == RatSub(x, cx)
        dy == RatSub(y, cy)
    IN IF isnan(dx) \/ isnan(dy) THEN [x |-> NaN, y |-> NaN]
       ELSE CASE deg = 90 -> [x |-> RatSub(cx, dy), y |-> RatAdd(cy, dx)]
              [] deg = 180 -> [x |-> RatSub(cx, dx), y |-> RatSub(cy, dy)]
              [] deg = 270 -> [x |-> RatAdd(cx, dy), y |-> RatSub(cy, dx)]
              [] OTHER -> [x |-> RatAdd(cx, dx), y |-> RatAdd(cy, dy)]

rotate_arrays(x, y, deg, cx, cy) ==
    [x |-> [k \in DOMAIN x |-> rotate_point(x[k], y[k], deg, cx, cy).x],
     y |-> [k \in DOMAIN x |-> rotate_point(x[k], y[k], deg, cx, cy).y]]

\* values.astype(float) of a column
float_column(rows, name) == [k \in DOMAIN rows |-> as_value(rows[k][name])]

\* seq[::step]
stride(seq, step) ==
    [k \in 1..((Len(seq) + step - 1) \div step) |-> seq[(k - 1) * step + 1]]

\* The table has the columns: a table is its rows, and each row carries the
\* columns of the table.
has_columns(rows, cols) == \A k \in DOMAIN rows : cols \subseteq DOMAIN rows[k]

\* A telemetry channel of driver num at time t: NaN without car data and
\* without the column.
channel(num, t, cd, name) ==
    IF num \notin DOMAIN cd THEN NaN
    ELSE LET rows == car_rows(cd[num])
         IN IF rows = <<>> THEN NaN
            ELSE IF ~has_columns(rows, {name}) THEN NaN
            ELSE np_interp(t, Column(rows, "SessionTime"), Column(rows, name))

\* The loop over pos_data.items() raises KeyError on a position table
\* without SessionTime, X or Y, and on the telemetry table without
\* SessionTime of a driver that has a position sample.
table_raises(pd, cd) ==
    \E num \in DOMAIN pd :
       \/ ~has_columns(pd[num], {"SessionTime", "X", "Y"})
       \/ /\ pos_rows(pd[num]) # <<>>
          /\ num \in DOMAIN cd
          /\ ~has_columns(cd[num], {"SessionTime"})

\* x_rot and y_rot of driver num over the grid: the interpolated positions,
\* rotated about their own mean when the circuit has a rotation.
driver_positions(num, grid, pd, deg) ==
    LET pos == pos_rows(pd[num])
        x == [i \in DOMAIN grid |->
                np_interp(grid[i], Column(pos, "SessionTime"), Column(pos, "X"))]
        y == [i \in DOMAIN grid |->
                np_interp(grid[i], Column(pos, "SessionTime"), Column(pos, "Y"))]
    IN IF deg # 0 THEN rotate_arrays(x, y, deg, nanmean(x), nanmean(y))
       ELSE [x |-> x, y |-> y]

\* What the loop over the frames appends to frames[i] for driver num:
\* nothing when the driver has no valid sample or x is NaN at grid[i + 1].
driver_entry(num, i, grid, pd, cd, res, deg) ==
    LET pos == pos_rows(pd[num])
        t == grid[i + 1]
    IN IF pos = <<>> THEN <<>>
       ELSE LET x == IF deg # 0 THEN driver_positions(num, grid, pd, deg).x[i + 1]
                     ELSE np_interp(t, Column(pos, "SessionTime"), Column(pos, "X"))
                y == IF deg # 0 THEN driver_positions(num, grid, pd, deg).y[i + 1]
                     ELSE np_interp(t, Column(pos, "SessionTime"), Column(pos, "Y"))
            IN IF isnan(x) THEN <<>>
               ELSE <<[driver |-> driver_code(num, res), x |-> x, y |-> y,
                       speed |-> safe_float(channel(num, t, cd, "Speed")),
                       gear |-> safe_int(channel(num, t, cd, "nGear"))]>>

\* frames[i] after the loop over pos_data.items(), in the order of its keys.
RECURSIVE frame_entries(_, _, _, _, _, _, _)
frame_entries(k, i, grid, pd, cd, res, deg) ==
    IF k > Len(DriverNumbers) THEN <<>>
    ELSE (IF DriverNumbers[k] \in DOMAIN pd
          THEN driver_entry(DriverNumbers[k], i, grid, pd, cd, res, deg) ELSE <<>>)
         \o frame_entries(k + 1, i, grid, pd, cd, res, deg)

build_frames(grid, pd, cd, res, deg) ==
    [i \in 0..(Len(grid) - 1) |-> frame_entries(1, i, grid, pd, cd, res, deg)]

\* all_x and all_y: the positions of every entry of every frame.
RECURSIVE all_positions(_, _)
all_positions(fr, i) ==
    IF i < 0 THEN <<>>
    ELSE all_positions(fr, i - 1) \o [k \in DOMAIN fr[i] |-> [x |-> fr[i][k].x, y |-> fr[i][k].y]]

\* ---------------------------------------------------------------- DRS zones

DRS_ACTIVE == 10
DRS_MIN_COUNT == 10
ZONE_MIN == 5
ZONE_POINTS == 30

\* (pd.to_numeric(tel["DRS"], errors="coerce") >= 10).sum()
drs_count(tel) ==
    Cardinality({k \in DOMAIN tel : tel[k].DRS # None /\ tel[k].DRS >= DRS_ACTIVE})

\* The candidate kept by the loop: the first one whose count is above the
\* counts before it and above 0; 0 when there is none.
RECURSIVE best_candidate(_, _, _, _)
best_candidate(cands, k, best, best_count) ==
    IF k > Len(cands) THEN best
    ELSE IF drs_count(cands[k]) > best_count
         THEN best_candidate(cands, k + 1, k, drs_count(cands[k]))
    ELSE best_candidate(cands, k + 1, best, best_count)

\* A bug: a run of ZONE_MIN samples is kept.
zone_kept_from_min(zone_x) == Len(zone_x) >= ZONE_MIN

\* if in_zone and len(zone_x) > 5
zone_kept(zone_x) == Len(zone_x) > ZONE_MIN

zone_of(zone_x, zone_y) ==
    LET step == IF Len(zone_x) \div ZONE_POINTS > 1 THEN Len(zone_x) \div ZONE_POINTS
                ELSE 1
    IN [x |-> stride(zone_x, step), y |-> stride(zone_y, step)]

\* The loop over the samples from sample i on; the run collected so far in
\* zone_x and zone_y is the samples from sample first to sample i - 1.
RECURSIVE scan_zones(_, _, _, _, _, _)
scan_zones(drs, x, y, i, in_zone, first) ==
    LET zone_x == SubSeq(x, first, i - 1)
        zone_y == SubSeq(y, first, i - 1)
        closed == IF in_zone /\ zone_kept(zone_x) THEN <<zone_of(zone_x, zone_y)>>
                  ELSE <<>>
    IN IF i > Len(drs) THEN closed
       ELSE IF drs[i] # None /\ drs[i] >= DRS_ACTIVE /\ ~isnan(x[i])
       THEN scan_zones(drs, x, y, i + 1, TRUE, IF in_zone THEN first ELSE i)
       ELSE closed \o scan_zones(drs, x, y, i + 1, FALSE, first)

\* _build_drs_zones: cands are the telemetry tables of the candidate laps;
\* session.results.iloc[0] raises on an empty results table, and every
\* exception gives no zone.
build_drs_zones(res, cands, deg) ==
    LET best == best_candidate(cands, 1, 0, 0)
    IN IF DOMAIN res = {} THEN <<>>
       ELSE IF best = 0 THEN <<>>
       ELSE IF drs_count(cands[best]) < DRS_MIN_COUNT THEN <<>>
       ELSE LET tel == cands[best]
                x == float_column(tel, "X")
                y == float_column(tel, "Y")
                rot == IF deg # 0
                       THEN rotate_arrays(x, y, deg, nanmean(x), nanmean(y))
                       ELSE [x |-> x, y |-> y]
            IN scan_zones([k \in DOMAIN tel |-> tel[k].DRS], rot.x, rot.y, 1, FALSE, 1)

\* ------------------------------------------------------------ track outline

HIRES_POINTS == 600
FALLBACK_RATE == 4

NoOutline == [x |-> <<>>, y |-> <<>>]

\* corner_data = None
NoCorners == [x |-> <<>>, y |-> <<>>, numbers |-> <<>>]

\* _build_hires_track: the telemetry of the fastest lap, rotated about its
\* own mean and downsampled; no outline when the lap or its telemetry is
\* missing or empty.
build_hires_track(cands, deg) ==
    IF cands = <<>> THEN NoOutline
    ELSE IF cands[1] = <<>> THEN NoOutline
    ELSE LET x == float_column(cands[1], "X")
             y == float_column(cands[1], "Y")
             rot == IF deg # 0
                    THEN rotate_arrays(x, y, deg, nanmean(x), nanmean(y))
                    ELSE [x |-> x, y |-> y]
             step == IF Len(x) \div HIRES_POINTS > 1 THEN Len(x) \div HIRES_POINTS
                     ELSE 1
         IN [x |-> stride(rot.x, step), y |-> stride(rot.y, step)]

\* laps["LapNumber"].max()
lap_number_max(lp) ==
    series_max(UNION {{lp[d][k].LapNumber : k \in DOMAIN lp[d]} : d \in DOMAIN lp})

\* A bug: the outline is not cut to one lap.
fallback_length_all(start, end, lp) == end - start

\* n = int(lap_dur * 4), lap_dur = (race_end - race_start) / max(1, laps);
\* the times are in ms.
fallback_length(start, end, lp) ==
    LET m == IF lap_number_max(lp) > 1 THEN lap_number_max(lp) ELSE 1
    IN ((end - start) * FALLBACK_RATE) \div (1000 * m)

\* _build_fallback_track: the first n valid position samples of the first
\* driver of the results, rotated about their own mean.
build_fallback_track(pd, res, lp, start, end, deg) ==
    LET dm == driver_map(res)
    IN IF dm = <<>> THEN NoOutline
       ELSE IF dm[1].num \notin DOMAIN pd THEN NoOutline
       ELSE LET pos == pos_rows(pd[dm[1].num])
                n == fallback_length(start, end, lp)
                cut == SubSeq(pos, 1, IF n < Len(pos) THEN n ELSE Len(pos))
                ox == float_column(cut, "X")
                oy == float_column(cut, "Y")
            IN IF deg # 0
               THEN rotate_arrays(ox, oy, deg, nanmean(ox), nanmean(oy))
               ELSE [x |-> ox, y |-> oy]

\* track_x, track_y: the outline of the fastest lap, or the fallback when
\* that one is empty.
build_track(cands, pd, res, lp, start, end, deg) ==
    IF build_hires_track(cands, deg).x # <<>> THEN build_hires_track(cands, deg)
    ELSE build_fallback_track(pd, res, lp, start, end, deg)

\* corner_data: the corners rotated about the mean of all_x and all_y, which
\* is (0, 0) without a position.
build_corner_data(crn, all, deg) ==
    IF crn = <<>> THEN NoCorners
    ELSE LET cx_c == IF all = <<>> THEN Rat(0, 1)
                     ELSE nanmean([k \in DOMAIN all |-> all[k].x])
             cy_c == IF all = <<>> THEN Rat(0, 1)
                     ELSE nanmean([k \in DOMAIN all |-> all[k].y])
             x == float_column(crn, "X")
             y == float_column(crn, "Y")
             rot == IF deg # 0 THEN rotate_arrays(x, y, deg, cx_c, cy_c)
                    ELSE [x |-> x, y |-> y]
         IN [x |-> rot.x, y |-> rot.y, numbers |-> Column(crn, "Number")]

\* The keys of the meta dict build_replay_data returns.
MetaKeys ==
    {"frames", "time_grid", "race_start", "race_end", "total_frames",
     "sample_interval", "driver_map", "team_map", "driver_colors", "headshot_map",
     "lap_lookup", "position_lookup", "track_status_lookup", "compound_lookup",
     "cumtime_lookup", "retired_drivers", "track_x", "track_y", "corner_data",
     "drs_zones", "weather_timeline", "sector_lookup", "pit_events", "rc_messages",
     "x_range", "y_range", "total_laps"}

\* ---------------------------------------------------------------- replay

\* The floats among the first MaxTick multiples of 0.25 s.
Instants == {Tick(k) : k \in {j \in 0..MaxTick : round_bits(j) = j}}

\* interval: float = Query(4.0, ge=1.0, le=10.0)
Intervals == {i \in {Tick(k) : k \in 1..MaxInterval} : i >= 1000 /\ i <= 10000}

\* Every 2 s and every 1 s.
CoarseInstants == {Tick(8 * k) : k \in 0..(MaxTick \div 8)}

SampleInstants == {Tick(4 * k) : k \in 0..(MaxTick \div 4)}

\* One driver with one lap between any two instants.
GridLaps ==
    [VER : UNION {ChainRows(1, 1, s, Instants, 1) : s \in Instants},
     HAM : {<<>>}, LEC : {<<>>}]

\* Two drivers with up to MaxLaps laps and one lap, every 2 s.
StructLaps ==
    [VER : UNION {ChainRows(n, 1, s, CoarseInstants, 1) :
                    n \in 0..MaxLaps, s \in CoarseInstants},
     HAM : UNION {ChainRows(n, 1, s, CoarseInstants, 2) :
                    n \in 0..1, s \in CoarseInstants},
     LEC : {<<>>}]

FixedLaps ==
    [VER |-> <<LapRow(1, 0, Tick(16), 1), LapRow(2, Tick(16), Tick(32), 1)>>,
     HAM |-> <<LapRow(1, 0, Tick(24), 2)>>,
     LEC |-> <<>>]

\* Position samples of one driver: sample k is 10 m further along than
\* sample k - 1, and X or Y may be missing.
RECURSIVE SampleChain(_, _, _)
SampleChain(n, k, after) ==
    IF n = 0 THEN {<<>>}
    ELSE UNION {
           {<<[SessionTime |-> t, X |-> xy[1], Y |-> xy[2]]>> \o rest :
               xy \in {<<100 * k, 50 * k>>, <<None, 50 * k>>, <<100 * k, None>>},
               rest \in SampleChain(n - 1, k + 1, t)} :
           t \in {i \in SampleInstants : i > after}}

SampleSeqs == UNION {SampleChain(n, 1, None) : n \in 0..MaxSamples}

HamSamples ==
    <<[SessionTime |-> Tick(8), X |-> 0, Y |-> 0],
      [SessionTime |-> Tick(24), X |-> 400, Y |-> 100]>>

PosTables ==
    {[num \in {"1"} |-> v] : v \in SampleSeqs}
    \cup {[num \in {"1", "44"} |-> IF num = "1" THEN v ELSE HamSamples] : v \in SampleSeqs}

FixedPos ==
    [num \in {"1"} |-> <<[SessionTime |-> 0, X |-> 0, Y |-> 0],
                         [SessionTime |-> Tick(MaxTick), X |-> 3600, Y |-> 1800]>>]

\* Telemetry of driver 1: none, no row, two samples, samples with a missing
\* value.
CarTables ==
    {<<>>}
    \cup {[num \in {"1"} |-> v] :
            v \in {<<>>,
                   <<[SessionTime |-> Tick(8), Speed |-> 100, nGear |-> 3],
                     [SessionTime |-> Tick(24), Speed |-> 201, nGear |-> 4]>>,
                   <<[SessionTime |-> Tick(8), Speed |-> None, nGear |-> 3],
                     [SessionTime |-> Tick(24), Speed |-> 201, nGear |-> None]>>}}

FixedCar ==
    [num \in {"1"} |-> <<[SessionTime |-> 0, Speed |-> 100, nGear |-> 3],
                         [SessionTime |-> Tick(MaxTick), Speed |-> 300, nGear |-> 8]>>]

\* A loaded session and a pending request: of the /replay endpoint with its
\* interval, or of the replay page, which builds with sample_interval=4.0.
InitReplay ==
    /\ results = [d \in DriverSet |-> "Finished"]
    /\ session_time = 0
    /\ standings = <<>>
    /\ called = FALSE
    /\ point = [kind |-> "none"]
    /\ pc = "start"
    /\ race_start = None
    /\ race_end = None
    /\ time_grid = <<>>
    /\ frames = <<>>
    /\ frames_out = <<>>
    /\ fig_frames = <<>>
    /\ NoCircuit
    /\ NoOverlay
    /\ NoRace
    /\ NoApp
    /\ \/ /\ request = "api"
          /\ laps \in GridLaps \cup StructLaps
          /\ sample_interval \in Intervals
          /\ pos_data = FixedPos
          /\ car_data = FixedCar
       \/ /\ request = "api"
          /\ laps = FixedLaps
          /\ sample_interval \in Intervals
          /\ pos_data \in PosTables
          /\ car_data \in CarTables
       \/ /\ request = "page"
          /\ laps \in {FixedLaps}
          /\ sample_interval = 4000
          /\ pos_data \in {FixedPos, [num \in {"1", "44"} |-> HamSamples]}
          /\ car_data = FixedCar

\* build_replay_data. np.arange raises ValueError for a NaN race_start or
\* race_end (no lap start, no lap time), the loop over the drivers raises
\* KeyError on a table without its columns, and x_arr.min() raises
\* ValueError when no driver has a position at any grid time.
BuildReplayData ==
    /\ pc = "start"
    /\ LET start == lap_start_min(laps)
           end == lap_time_max(laps)
           grid == arange(start, end, sample_interval)
           built == build_frames(grid, pos_data, car_data, results, rotation_deg)
       IN IF start = None \/ end = None
          THEN pc' = "error" /\ UNCHANGED <<metaVars, overlayVars>>
          ELSE IF table_raises(pos_data, car_data)
          THEN pc' = "error" /\ UNCHANGED <<metaVars, overlayVars>>
          ELSE IF \A i \in DOMAIN built : built[i] = <<>>
          THEN pc' = "error" /\ UNCHANGED <<metaVars, overlayVars>>
          ELSE /\ pc' = "built"
               /\ race_start' = start
               /\ race_end' = end
               /\ time_grid' = grid
               /\ frames' = built
               /\ track_outline' = build_track(telemetry, pos_data, results, laps,
                                               start, end, rotation_deg)
               /\ corner_data' = build_corner_data(
                                     corners, all_positions(built, Len(grid) - 1),
                                     rotation_deg)
               /\ drs_zones' = build_drs_zones(results, telemetry, rotation_deg)
    /\ UNCHANGED <<inputVars, session_time, standingsVars, point, sessionVars,
                   request, frames_out, fig_frames, circuitVars, raceVars, appVars>>

\* "p": s["position"] or idx + 1, ... for the first 20 entries
standings_out(stnd, t, pit_events) ==
    [idx \in 1..(IF Len(stnd) < 20 THEN Len(stnd) ELSE 20) |->
        [p |-> IF stnd[idx].position = None \/ stnd[idx].position = 0
               THEN idx ELSE stnd[idx].position,
         d |-> stnd[idx].driver, l |-> stnd[idx].lap, gap |-> stnd[idx].gap,
         interval |-> stnd[idx].interval, retired |-> stnd[idx].retired,
         inPit |-> is_in_pit(stnd[idx].driver, t, pit_events)]]

\* frames_out[str(i)] of replay_data; elapsed is rounded to 0.1 s.
replay_frame(i) ==
    LET t == time_grid[i + 1]
        stnd == get_standings_at_time(t, drivers_list(results),
                                      build_position_lookup(laps),
                                      build_lap_lookup(laps),
                                      build_cumtime_lookup(laps),
                                      retired_drivers(results))
    IN [drivers |-> frames[i],
        elapsed |-> 100 * RoundHalfEven(fl(t - race_start), 100),
        lap |-> IF stnd = <<>> THEN 1 ELSE stnd[1].lap,
        status |-> get_current_track_status(
                       t, build_track_status_lookup(track_status)).name,
        standings |-> standings_out(stnd, t, build_pit_events(laps))]

\* The indices the frame loop does not skip: "if not drv: continue".
emitted(fr) == {i \in DOMAIN fr : fr[i] # <<>>}

\* The frame loop of the /replay endpoint.
ReplayData ==
    /\ pc = "built"
    /\ request = "api"
    /\ frames_out' = [i \in emitted(frames) |-> replay_frame(i)]
    /\ pc' = "served"
    /\ UNCHANGED <<inputVars, session_time, standingsVars, point, sessionVars,
                   request, metaVars, fig_frames, circuitVars, overlayVars, raceVars, appVars>>

\* go.Frame(...) of the replay page, whose standings are computed without
\* cumulative times and retirements.
figure_frame(i) ==
    LET stnd == get_standings_at_time(time_grid[i + 1], drivers_list(results),
                                      build_position_lookup(laps),
                                      build_lap_lookup(laps), <<>>, {})
    IN [name |-> i, drivers |-> frames[i],
        lap |-> IF stnd = <<>> THEN 1 ELSE stnd[1].lap]

\* _build_animated_figure of the replay page: it reads
\* meta["track_outline_x"] and meta["track_outline_y"] before its frame loop,
\* and a key the meta dict does not have raises KeyError.
BuildAnimatedFigure ==
    /\ pc = "built"
    /\ request = "page"
    /\ IF {"track_outline_x", "track_outline_y"} \subseteq MetaKeys
       THEN /\ fig_frames' = [i \in emitted(frames) |-> figure_frame(i)]
            /\ pc' = "figure"
       ELSE /\ pc' = "key_error"
            /\ UNCHANGED fig_frames
    /\ UNCHANGED <<inputVars, session_time, standingsVars, point, sessionVars,
                   request, metaVars, frames_out, circuitVars, overlayVars, raceVars, appVars>>

NextReplay == BuildReplayData \/ ReplayData \/ BuildAnimatedFigure

SpecReplay == InitReplay /\ [][NextReplay]_vars

\* ----------------------------------------------------------------- build

\* One lap of a quarter of a second: the outline is cut to one sample.
SprintLaps == [VER |-> <<LapRow(1, 0, Tick(1), 1)>>, HAM |-> <<>>, LEC |-> <<>>]

NoLaps == [d \in DriverSet |-> <<>>]

\* The position tables of the build: of driver 1, of driver 44, of both, and
\* of both with a table of driver 44 that has no X column.
BuildPosTables ==
    {FixedPos,
     [num \in {"44"} |-> HamSamples],
     [num \in {"1", "44"} |-> IF num = "1" THEN FixedPos["1"] ELSE HamSamples],
     [num \in {"1", "44"} |->
        IF num = "1" THEN FixedPos["1"]
        ELSE <<[SessionTime |-> Tick(8), Y |-> 0], [SessionTime |-> Tick(24), Y |-> 100]>>]}

\* The telemetry tables of the build: complete, without the Speed column,
\* and without the SessionTime column.
BuildCarTables ==
    {FixedCar,
     [num \in {"1"} |-> <<[SessionTime |-> 0, nGear |-> 3],
                          [SessionTime |-> Tick(MaxTick), nGear |-> 8]>>],
     [num \in {"1"} |-> <<[Speed |-> 100, nGear |-> 3], [Speed |-> 300, nGear |-> 8]>>]}

\* The fastest lap has no telemetry, or 12 samples with DRS open.
BuildTelemetry ==
    {<<>>, <<[k \in 1..12 |-> [X |-> 100 * k, Y |-> 50 * k, DRS |-> 12]]>>}

BuildCorners ==
    {<<>>, <<[X |-> 100, Y |-> 0, Number |-> 1], [X |-> 300, Y |-> 200, Number |-> 2]>>}

\* A session with or without laps, results, circuit information and
\* fastest-lap telemetry, and a request of the /replay endpoint.
InitBuild ==
    /\ laps \in {FixedLaps, SprintLaps, NoLaps}
    /\ results \in {[d \in DriverSet |-> "Finished"], <<>>}
    /\ session_time = 0
    /\ standings = <<>>
    /\ called = FALSE
    /\ point = [kind |-> "none"]
    /\ request = "api"
    /\ sample_interval \in Intervals
    /\ pos_data \in BuildPosTables
    /\ car_data \in BuildCarTables
    /\ pc = "start"
    /\ race_start = None
    /\ race_end = None
    /\ time_grid = <<>>
    /\ frames = <<>>
    /\ frames_out = <<>>
    /\ fig_frames = <<>>
    /\ track_status = FixedStatusLog
    /\ telemetry \in BuildTelemetry
    /\ rotation_deg \in {0, 90}
    /\ corners \in BuildCorners
    /\ NoOverlay
    /\ NoRace
    /\ NoApp

NextBuild == BuildReplayData \/ ReplayData

SpecBuild == InitBuild /\ [][NextBuild]_vars

\* ------------------------------------------------------------- DRS zones

\* Telemetry of one lap, MaxDrs samples 10 m apart: DRS is 8 (closed) or 10
\* (open) at each sample, and one sample may lack its X or its DRS value.
DrsHoles == {k \in 1..MaxDrs : k % 4 = 3}

DrsTable(f, hole, col) ==
    [k \in 1..MaxDrs |->
        [X |-> IF k = hole /\ col = "X" THEN None ELSE 100 * k,
         Y |-> 50 * k,
         DRS |-> IF k = hole /\ col = "DRS" THEN None ELSE f[k]]]

DrsPatterns == [1..MaxDrs -> {8, 10}]

\* A lap with three open samples.
ShortDrsLap == [k \in 1..4 |-> [X |-> 100 * k, Y |-> 50 * k,
                                 DRS |-> IF k = 1 THEN 8 ELSE 10]]

InitDrs ==
    /\ laps = FixedLaps
    /\ results = [d \in DriverSet |-> "Finished"]
    /\ session_time = 0
    /\ standings = <<>>
    /\ called = FALSE
    /\ point = [kind |-> "none"]
    /\ sample_interval = 0
    /\ request = "none"
    /\ pos_data = <<>>
    /\ car_data = <<>>
    /\ pc = "drs"
    /\ race_start = None
    /\ race_end = None
    /\ time_grid = <<>>
    /\ frames = <<>>
    /\ frames_out = <<>>
    /\ fig_frames = <<>>
    /\ track_status = <<>>
    /\ corners = <<>>
    /\ NoOverlay
    /\ NoRace
    /\ NoApp
    /\ \/ /\ rotation_deg = 0
          /\ telemetry \in {<<DrsTable(f, 0, "X")>> : f \in DrsPatterns}
                            \cup {<<DrsTable(f, h, c)>> :
                                     f \in DrsPatterns, h \in DrsHoles, c \in {"X", "DRS"}}
       \/ /\ rotation_deg = 90
          /\ telemetry \in {<<ShortDrsLap, DrsTable(f, 0, "X")>> : f \in DrsPatterns}

\* drs_zones = _build_drs_zones(session, rotation_deg)
BuildDrsZones ==
    /\ pc = "drs"
    /\ drs_zones' = build_drs_zones(results, telemetry, rotation_deg)
    /\ pc' = "zones"
    /\ UNCHANGED <<inputVars, session_time, standingsVars, point, sessionVars,
                   request, metaVars, frames_out, fig_frames, circuitVars,
                   track_outline, corner_data, raceVars, appVars>>

NextDrs == BuildDrsZones

SpecDrs == InitDrs /\ [][NextDrs]_vars

\* Telemetry of one lap of n samples with the DRS channel at v at every
\* sample: one run of n samples when v counts as open.
LongDrsLap(n, v) == [k \in 1..n |-> [X |-> 100 * k, Y |-> 50 * k, DRS |-> v]]

\* A session whose selected lap is one DRS run of up to MaxRun samples.
InitZone ==
    /\ laps = FixedLaps
    /\ results = [d \in DriverSet |-> "Finished"]
    /\ session_time = 0
    /\ standings = <<>>
    /\ called = FALSE
    /\ point = [kind |-> "none"]
    /\ sample_interval = 0
    /\ request = "none"
    /\ pos_data = <<>>
    /\ car_data = <<>>
    /\ pc = "drs"
    /\ race_start = None
    /\ race_end = None
    /\ time_grid = <<>>
    /\ frames = <<>>
    /\ frames_out = <<>>
    /\ fig_frames = <<>>
    /\ track_status = <<>>
    /\ corners = <<>>
    /\ NoOverlay
    /\ NoRace
    /\ NoApp
    /\ rotation_deg = 0
    /\ telemetry \in {<<LongDrsLap(n, v)>> : n \in 1..MaxRun, v \in {8, 10, 12, 14}}

SpecZone == InitZone /\ [][NextDrs]_vars

\* ------------------------------------------------- the loop over the drivers

\* One pass of the loop over pos_data.items() for driver num: every frame
\* gets the entry of the driver appended, if it has one.
append_entries_replacing(fr, num, grid, pd, cd, res, deg) ==
    [i \in DOMAIN fr |->
        IF driver_entry(num, i, grid, pd, cd, res, deg) # <<>>
        THEN driver_entry(num, i, grid, pd, cd, res, deg) ELSE fr[i]]

append_entries(fr, num, grid, pd, cd, res, deg) ==
    [i \in DOMAIN fr |-> fr[i] \o driver_entry(num, i, grid, pd, cd, res, deg)]

\* The orders in which a dict can hold the keys of pd.
key_orders(pd) ==
    {s \in [1..Cardinality(DOMAIN pd) -> DOMAIN pd] :
        \A a, b \in DOMAIN s : a # b => s[a] # s[b]}

\* Position samples of the three cars: two samples each, a table with no
\* valid sample, a table without the X column, or no table.
LoopSamples(num) ==
    LET off == IF num = "1" THEN 0 ELSE IF num = "44" THEN 1 ELSE 2
    IN {<<[SessionTime |-> Tick(4 * off), X |-> 100 * off, Y |-> 0],
          [SessionTime |-> Tick(MaxTick - 8 * off), X |-> 3600, Y |-> 1800 + 100 * off]>>,
        <<[SessionTime |-> Tick(8), X |-> None, Y |-> 0]>>}
       \cup (IF num = "16"
             THEN {<<[SessionTime |-> Tick(8), Y |-> 0], [SessionTime |-> Tick(24), Y |-> 100]>>}
             ELSE {})

LoopPosTables ==
    UNION {{pd \in [keys -> UNION {LoopSamples(num) : num \in keys}] :
               \A num \in keys : pd[num] \in LoopSamples(num)} :
              keys \in SUBSET {"1", "44", "16"}}

\* A session before its build, with pos_data in one of its key orders.
InitLoop ==
    /\ laps = FixedLaps
    /\ results = [d \in DriverSet |-> "Finished"]
    /\ session_time = 0
    /\ standings = <<>>
    /\ called = FALSE
    /\ point = [kind |-> "none"]
    /\ request = "api"
    /\ sample_interval \in Intervals
    /\ pos_data \in LoopPosTables
    /\ car_data \in {FixedCar, <<>>}
    /\ pc = "start"
    /\ race_start = None
    /\ race_end = None
    /\ time_grid = <<>>
    /\ frames = <<>>
    /\ frames_out = <<>>
    /\ fig_frames = <<>>
    /\ track_status = <<>>
    /\ telemetry = <<>>
    /\ rotation_deg \in {0, 90}
    /\ corners = <<>>
    /\ NoOverlay
    /\ NoRace
    /\ agent = [pc |-> "idle"]
    /\ service = NoService
    /\ pending \in key_orders(pos_data)

\* build_replay_data up to its loop over the drivers: the time grid and one
\* empty list per frame.
EnterLoop ==
    /\ pc = "start"
    /\ LET start == lap_start_min(laps)
           end == lap_time_max(laps)
           grid == arange(start, end, sample_interval)
       IN /\ race_start' = start
          /\ race_end' = end
          /\ time_grid' = grid
          /\ frames' = [i \in 0..(Len(grid) - 1) |-> <<>>]
    /\ pc' = IF pending = <<>> THEN "looped" ELSE "loop"
    /\ UNCHANGED <<inputVars, session_time, standingsVars, point, sessionVars,
                   request, frames_out, fig_frames, circuitVars, overlayVars,
                   raceVars, pending, agent, service>>

\* One pass of the loop, for the next key of pos_data.  A table without its
\* columns raises KeyError, which ends the build.
VisitDriver ==
    /\ pc = "loop"
    /\ LET num == Head(pending)
       IN IF table_raises([n \in {num} |-> pos_data[n]], car_data)
          THEN pc' = "error" /\ UNCHANGED <<frames, pending>>
          ELSE /\ frames' = append_entries(frames, num, time_grid, pos_data, car_data,
                                           results, rotation_deg)
               /\ pending' = Tail(pending)
               /\ pc' = IF Tail(pending) = <<>> THEN "looped" ELSE "loop"
    /\ UNCHANGED <<inputVars, session_time, standingsVars, point, sessionVars,
                   request, race_start, race_end, time_grid, frames_out, fig_frames,
                   circuitVars, overlayVars, raceVars, agent, service>>

NextLoop == EnterLoop \/ VisitDriver

SpecLoop == InitLoop /\ [][NextLoop]_vars

\* ------------------------------------------------- a leader that retires

\* A race sampled every 8 s.  The leader completes one or two laps of 8 s
\* and is listed as finished or as retired; the second driver completes its
\* first lap after 12 s and its second lap at some later grid time, up to
\* MaxFrames intervals after the start.
LeaderLaps ==
    {[VER |-> SubSeq(<<LapRow(1, 0, Tick(32), 1), LapRow(2, Tick(32), Tick(64), 1)>>,
                     1, n),
      HAM |-> <<LapRow(1, 0, Tick(48), 2), LapRow(2, Tick(48), Tick(32 * k), 2)>>,
      LEC |-> <<>>] : n \in 1..2, k \in 3..MaxFrames}

InitLeader ==
    /\ laps \in LeaderLaps
    /\ results \in {[d \in {"VER", "HAM"} |-> IF d = "VER" THEN st ELSE "Finished"] :
                       st \in {"Finished", "Retired"}}
    /\ session_time = 0
    /\ standings = <<>>
    /\ called = FALSE
    /\ point = [kind |-> "none"]
    /\ request = "api"
    /\ sample_interval = Tick(32)
    /\ pos_data = [num \in {"1", "44"} |->
                     <<[SessionTime |-> 0, X |-> 0, Y |-> 0],
                       [SessionTime |-> IF num = "1" THEN Tick(64) ELSE Tick(32 * MaxFrames),
                        X |-> 3600, Y |-> 1800]>>]
    /\ car_data = <<>>
    /\ pc = "start"
    /\ race_start = None
    /\ race_end = None
    /\ time_grid = <<>>
    /\ frames = <<>>
    /\ frames_out = <<>>
    /\ fig_frames = <<>>
    /\ NoCircuit
    /\ NoOverlay
    /\ NoRace
    /\ NoApp

NextLeader == BuildReplayData \/ ReplayData

SpecLeader == InitLeader /\ [][NextLeader]_vars

\* ------------------------------------------------- standings of a roster

\* The Status values of the results of the model.
FinalStatuses == {"Finished", "+1 Lap", "Lapped", "Retired"}

\* The leader with two laps; a second driver with no row, a row without
\* its completion time, one lap or two; a third with no row, or one lap
\* with or without a rank.
RosterLaps ==
    [VER : {<<LapRow(1, 0, 90000, 1), LapRow(2, 90000, 180000, 1)>>},
     HAM : {<<>>, <<LapRow(1, 0, None, 2)>>, <<LapRow(1, 0, 90030, 2)>>,
            <<LapRow(1, 0, 90030, 2), LapRow(2, 90030, 180060, 2)>>},
     LEC : {<<>>, <<LapRow(1, 0, 90080, None)>>, <<LapRow(1, 0, 90080, 3)>>}]

\* A session whose results list some of the drivers, each with its status.
InitRoster ==
    /\ laps \in RosterLaps
    /\ results \in UNION {[S -> FinalStatuses] : S \in SUBSET DriverSet}
    /\ session_time = 0
    /\ standings = <<>>
    /\ called = FALSE
    /\ point = [kind |-> "none"]
    /\ NoReplay
    /\ NoCircuit
    /\ NoOverlay
    /\ NoRace
    /\ NoApp

\* One call of get_standings_at_time with the drivers of the results as the
\* roster, in the order the results list them.
RosterStandings ==
    /\ ~called
    /\ \E roster \in key_orders(results), st \in QueryTimes(laps, results) :
          /\ session_time' = st
          /\ standings' = get_standings_at_time(
                              st, roster, build_position_lookup(laps),
                              build_lap_lookup(laps), build_cumtime_lookup(laps),
                              retired_drivers(results))
    /\ called' = TRUE
    /\ UNCHANGED <<inputVars, point, replayVars, circuitVars, overlayVars, raceVars,
                   appVars>>

NextRoster == RosterStandings

SpecRoster == InitRoster /\ [][NextRoster]_vars

\* ------------------------------------------------ RaceState (race_state.py)

\* In the rows of a race state LapTime, Time and PitInTime are in ms, None
\* for NaT; a text that is missing in the table or None in an answer is "".

\* _td_to_seconds: round(td.total_seconds(), 3), None for NaT.  The timing
\* data is in whole milliseconds, which the rounding keeps.
td_to_seconds(td) == td

Pad(n, width) ==
    LET s == ToString(n)
    IN IF width = 3 /\ n < 10 THEN "00" \o s
       ELSE IF (width = 3 /\ n < 100) \/ (width = 2 /\ n < 10) THEN "0" \o s
       ELSE s

\* _format_lap_time: f"{mins}:{secs:06.3f}", None for None.
format_lap_time(seconds) ==
    IF seconds = None THEN ""
    ELSE LET mins == seconds \div 60000
             secs == seconds - mins * 60000
         IN ToString(mins) \o ":" \o Pad(secs \div 1000, 2) \o "." \o Pad(secs % 1000, 3)

\* The rows of one driver, in table order.
rows_of(lp, driver) == IF driver \in DOMAIN lp THEN lp[driver] ELSE <<>>

\* self.laps in table order: the rows of each driver together, the drivers
\* in the order of the results.
RECURSIVE table_rows(_, _)
table_rows(lp, i) ==
    IF i > Len(Drivers) THEN <<>>
    ELSE [k \in DOMAIN rows_of(lp, Drivers[i]) |->
             [Driver |-> Drivers[i], row |-> lp[Drivers[i]][k]]]
         \o table_rows(lp, i + 1)

\* self.total_laps = int(self.laps["LapNumber"].max())
total_laps(lp) ==
    LET nums == {table_rows(lp, 1)[k].row.LapNumber : k \in DOMAIN table_rows(lp, 1)}
    IN CHOOSE n \in nums : \A m \in nums : m <= n

\* self.laps[(Driver == code) & (LapNumber <= as_of_lap)]
driver_laps(lp, driver, n) ==
    SelectSeq(rows_of(lp, driver), LAMBDA r : r.LapNumber <= n)

RECURSIVE sum_lap_times(_, _)
sum_lap_times(rows, k) ==
    IF k = 0 THEN 0
    ELSE sum_lap_times(rows, k - 1)
         + (IF rows[k].LapTime = None THEN 0 ELSE rows[k].LapTime)

\* self._cumulative_times[driver].get(lap): the lap times of the driver's
\* rows up to the row of that lap, when that row has a lap time.
cumulative_time(lp, driver, lap) ==
    LET rows == sort_values(rows_of(lp, driver))
        at == {k \in DOMAIN rows : rows[k].LapNumber = lap /\ rows[k].LapTime # None}
    IN IF at = {} THEN None
       ELSE sum_lap_times(rows, CHOOSE k \in at : \A j \in at : j <= k)

\* lap_data.sort_values("Position"): ascending, NaN last, rows of equal
\* rank in table order.
RECURSIVE insert_by_position(_, _)
insert_by_position(sorted, r) ==
    IF sorted = <<>> THEN <<r>>
    ELSE IF r.row.Position # None
            /\ (Head(sorted).row.Position = None
                \/ r.row.Position < Head(sorted).row.Position)
    THEN <<r>> \o sorted
    ELSE <<Head(sorted)>> \o insert_by_position(Tail(sorted), r)

RECURSIVE sort_by_position(_, _)
sort_by_position(rows, k) ==
    IF k = 0 THEN <<>>
    ELSE insert_by_position(sort_by_position(rows, k - 1), rows[k])

\* The loop of get_standings over the sorted rows from row i on.
RECURSIVE standings_loop(_, _, _, _, _)
standings_loop(lp, res, rows, i, leader_cum_time) ==
    IF i > Len(rows) THEN <<>>
    ELSE LET driver == rows[i].Driver
             row == rows[i].row
             cum_time == cumulative_time(lp, driver, row.LapNumber)
             leader == IF leader_cum_time = None THEN cum_time ELSE leader_cum_time
             gap == IF cum_time # None /\ leader # None THEN cum_time - leader
                    ELSE None
         IN <<[position |-> row.Position,
               driver |-> driver,
               team |-> IF driver \in DOMAIN res THEN res[driver].TeamName
                        ELSE "Unknown",
               compound |-> row.Compound,
               tyre_age |-> row.TyreLife,
               gap_to_leader |-> gap,
               last_lap_time |-> td_to_seconds(row.LapTime),
               last_lap_time_str |-> format_lap_time(td_to_seconds(row.LapTime))]>>
            \o standings_loop(lp, res, rows, i + 1, leader)

\* RaceState.get_standings
get_standings(lp, res, n) ==
    LET lap_data == SelectSeq(table_rows(lp, 1), LAMBDA r : r.row.LapNumber = n)
    IN standings_loop(lp, res, sort_by_position(lap_data, Len(lap_data)), 1, None)

\* The last last_n elements of a sequence.
tail(seq, last_n) ==
    IF Len(seq) <= last_n THEN seq ELSE SubSeq(seq, Len(seq) - last_n + 1, Len(seq))

\* The lap times of the rows that have one.
valid_times(rows) ==
    {rows[k].LapTime : k \in {j \in DOMAIN rows : rows[j].LapTime # None}}

min_time(S) == IF S = {} THEN None ELSE CHOOSE x \in S : \A y \in S : x <= y

\* RaceState.get_driver_info
get_driver_info(lp, res, code, n) ==
    LET rows == driver_laps(lp, code, n)
        at == SelectSeq(rows, LAMBDA r : r.LapNumber = n)
        current == IF at = <<>> THEN rows[Len(rows)] ELSE at[1]
        recent == tail(rows, 3)
        known == code \in DOMAIN res
    IN IF rows = <<>> THEN [error |-> "No data for driver", driver |-> code, lap |-> n]
       ELSE [driver |-> code,
             name |-> IF known THEN res[code].FullName ELSE code,
             team |-> IF known THEN res[code].TeamName ELSE "Unknown",
             position |-> current.Position,
             compound |-> current.Compound,
             tyre_age |-> current.TyreLife,
             stint |-> current.Stint,
             total_pit_stops |-> Len(SelectSeq(rows, LAMBDA r : r.PitInTime # None)),
             recent_lap_times |-> [k \in DOMAIN recent |->
                                     [lap |-> recent[k].LapNumber,
                                      time |-> td_to_seconds(recent[k].LapTime)]],
             best_lap_time |-> min_time(valid_times(rows)),
             best_lap_time_str |-> format_lap_time(min_time(valid_times(rows))),
             grid_position |-> IF known THEN res[code].GridPosition ELSE None]

\* round(sum(valid_times) / len(valid_times), 3) over the rows, in ms.
average_pace(rows) ==
    LET valid == SelectSeq(rows, LAMBDA r : r.LapTime # None)
    IN IF valid = <<>> THEN None
       ELSE RoundHalfEven(sum_lap_times(valid, Len(valid)), Len(valid))

\* RaceState.get_lap_times
get_lap_times(lp, code, n, last_n) ==
    LET rows == tail(driver_laps(lp, code, n), last_n)
    IN [driver |-> code,
        laps |-> [k \in DOMAIN rows |->
                    [lap |-> rows[k].LapNumber,
                     time |-> td_to_seconds(rows[k].LapTime),
                     time_str |-> format_lap_time(td_to_seconds(rows[k].LapTime)),
                     compound |-> rows[k].Compound]],
        average_pace |-> average_pace(rows),
        average_pace_str |-> format_lap_time(average_pace(rows)),
        best_lap |-> min_time(valid_times(rows)),
        best_lap_str |-> format_lap_time(min_time(valid_times(rows)))]

\* The loop of get_pit_stops over the rows from row i on.
RECURSIVE pit_stop_loop(_, _, _, _)
pit_stop_loop(rows, i, prev_stint, prev_compound) ==
    IF i > Len(rows) THEN <<>>
    ELSE LET stint == rows[i].Stint
             compound == rows[i].Compound
         IN (IF prev_stint # None /\ stint # None /\ stint > prev_stint
             THEN <<[lap |-> rows[i].LapNumber, from_compound |-> prev_compound,
                     to_compound |-> compound, stint_number |-> stint]>>
             ELSE <<>>)
            \o pit_stop_loop(rows, i + 1, stint, compound)

\* RaceState.get_pit_stops
get_pit_stops(lp, code, n) ==
    pit_stop_loop(sort_values(driver_laps(lp, code, n)), 1, None, "")

\* The thresholds of get_gap_to_driver (0.1 s) and of get_tyre_degradation
\* (0.10 and 0.05 s per lap, in tenths of a ms).
TREND_STABLE == 100
DEG_HIGH == 1000
DEG_MEDIUM == 500

\* abs(change) >= 2 of get_race_summary
MOVER_MIN == 2

\* RaceState.get_gap_to_driver
get_gap_to_driver(lp, driver_a, driver_b, n, last_n) ==
    LET time_a == cumulative_time(lp, driver_a, n)
        time_b == cumulative_time(lp, driver_b, n)
        gap == time_a - time_b
        first == IF n - last_n + 1 > 1 THEN n - last_n + 1 ELSE 1
        window == SelectSeq([k \in 1..(n - first + 1) |-> first + k - 1],
                            LAMBDA lap : /\ cumulative_time(lp, driver_a, lap) # None
                                         /\ cumulative_time(lp, driver_b, lap) # None)
        gaps == [k \in DOMAIN window |->
                   cumulative_time(lp, driver_a, window[k])
                   - cumulative_time(lp, driver_b, window[k])]
        delta == gaps[Len(gaps)] - gaps[1]
        abs_delta == IF delta < 0 THEN -delta ELSE delta
    IN IF time_a = None \/ time_b = None
       THEN [driver_a |-> driver_a, driver_b |-> driver_b, gap |-> None,
             ahead |-> "", trend |-> ""]
       ELSE [driver_a |-> driver_a, driver_b |-> driver_b,
             gap |-> IF gap < 0 THEN -gap ELSE gap,
             ahead |-> IF gap > 0 THEN driver_b ELSE driver_a,
             trend |-> IF Len(gaps) < 2 THEN ""
                       ELSE IF abs_delta < TREND_STABLE THEN "stable"
                       ELSE IF delta > 0 THEN "increasing" ELSE "decreasing",
             rate_per_lap |-> IF Len(gaps) < 2 THEN None
                              ELSE RoundHalfEven(delta, Len(gaps) - 1)]

RECURSIVE sum_of(_, _)
sum_of(vals, k) == IF k = 0 THEN 0 ELSE sum_of(vals, k - 1) + vals[k]

\* No degradation rate: the None of _compute_degradation.
NoRate == [kind |-> "none"]

\* _compute_degradation: the slope of the line fitted to lap time against
\* tyre life, rounded to four decimals of a second, here in tenths of a
\* ms per lap; none for fewer than three laps or a missing tyre life.
\* np.polyfit on laps of one tyre life is rank deficient and answers with
\* the least-norm line, of slope mean(y) / (2 x).
compute_degradation(valid) ==
    LET n == Len(valid)
        x == [k \in DOMAIN valid |-> valid[k].TyreLife]
        y == [k \in DOMAIN valid |-> valid[k].LapTime]
        sx == sum_of(x, n)
        sy == sum_of(y, n)
        sxy == sum_of([k \in DOMAIN valid |-> x[k] * y[k]], n)
        sxx == sum_of([k \in DOMAIN valid |-> x[k] * x[k]], n)
        den == n * sxx - sx * sx
    IN IF n < 3 THEN NoRate
       ELSE IF \E k \in DOMAIN valid : x[k] = None THEN NoRate
       ELSE IF den # 0
       THEN [kind |-> "rate", rate |-> RoundHalfEven(10 * (n * sxy - sx * sy), den)]
       ELSE IF x[1] # 0
       THEN [kind |-> "rate", rate |-> RoundHalfEven(10 * sy, 2 * n * x[1])]
       ELSE [kind |-> "nan"]

\* The rows of a stint that count for its pace: a lap time, and not lap 1.
valid_laps(group) == SelectSeq(group, LAMBDA r : r.LapTime # None /\ r.LapNumber > 1)

\* The entry of get_stints for the rows of one stint.
stint_entry(stint_num, group) ==
    LET nums == {group[k].LapNumber : k \in DOMAIN group}
        start_lap == CHOOSE a \in nums : \A b \in nums : a <= b
        end_lap == CHOOSE a \in nums : \A b \in nums : b <= a
        valid == valid_laps(group)
    IN [stint |-> stint_num,
        compound |-> group[1].Compound,
        start_lap |-> start_lap,
        end_lap |-> end_lap,
        num_laps |-> end_lap - start_lap + 1,
        average_pace |-> average_pace(valid),
        average_pace_str |-> format_lap_time(average_pace(valid)),
        best_lap |-> min_time(valid_times(valid)),
        best_lap_str |-> format_lap_time(min_time(valid_times(valid))),
        degradation_rate |-> compute_degradation(valid)]

\* The stints of the rows in ascending order, as groupby("Stint") gives
\* them; rows without a stint belong to no group.
RECURSIVE stint_groups(_, _)
stint_groups(rows, stints) ==
    IF stints = {} THEN <<>>
    ELSE LET s == CHOOSE a \in stints : \A b \in stints : a <= b
         IN <<stint_entry(s, SelectSeq(rows, LAMBDA r : r.Stint = s))>>
            \o stint_groups(rows, stints \ {s})

\* RaceState.get_stints
get_stints(lp, code, n) ==
    LET rows == sort_values(driver_laps(lp, code, n))
    IN stint_groups(rows, {rows[k].Stint : k \in DOMAIN rows} \ {None})

\* RaceState.get_tyre_degradation; stint_laps["Compound"].iloc[0] raises
\* IndexError when the last row has no stint.
get_tyre_degradation(lp, code, n) ==
    LET rows == sort_values(driver_laps(lp, code, n))
        current_stint == rows[Len(rows)].Stint
        stint_laps == SelectSeq(rows, LAMBDA r : r.Stint = current_stint)
        deg_rate == compute_degradation(valid_laps(stint_laps))
    IN IF rows = <<>> THEN [error |-> "No data for", driver |-> code]
       ELSE IF current_stint = None THEN [raised |-> "IndexError"]
       ELSE [driver |-> code,
             stint |-> current_stint,
             compound |-> stint_laps[1].Compound,
             stint_laps |-> Len(stint_laps),
             degradation_rate |-> deg_rate,
             severity |-> IF deg_rate.kind # "rate" THEN "low"
                          ELSE IF deg_rate.rate >= DEG_HIGH THEN "high"
                          ELSE IF deg_rate.rate >= DEG_MEDIUM THEN "medium"
                          ELSE "low"]

\* status_map.get(code, f"Unknown ({code})") of get_track_status
status_map(code) ==
    CASE code = "1" -> "Green" [] code = "2" -> "Yellow" [] code = "4" -> "Safety Car"
      [] code = "5" -> "Red Flag" [] code = "6" -> "VSC" [] code = "7" -> "VSC Ending"
      [] OTHER -> "Unknown (" \o code \o ")"

\* RaceState._time_to_lap: the lap of the first row of the table, of any
\* driver and any lap, whose completion time is nearest to the timestamp.
time_to_lap(lp, session_time_td) ==
    LET completed == SelectSeq(table_rows(lp, 1), LAMBDA r : r.row.Time # None)
        dist(k) == IF completed[k].row.Time < session_time_td
                   THEN session_time_td - completed[k].row.Time
                   ELSE completed[k].row.Time - session_time_td
        idx == CHOOSE k \in DOMAIN completed :
                 \A j \in DOMAIN completed :
                    dist(k) < dist(j) \/ (dist(k) = dist(j) /\ k <= j)
    IN IF completed = <<>> THEN None ELSE completed[idx].row.LapNumber

\* The loop of get_track_status over the rows of the status log.
RECURSIVE status_history(_, _, _, _)
status_history(lp, ts, i, n) ==
    IF i > Len(ts) THEN <<>>
    ELSE LET lap_approx == IF ts[i].Time # None THEN time_to_lap(lp, ts[i].Time)
                           ELSE None
         IN (IF lap_approx # None /\ lap_approx <= n
             THEN <<[lap |-> lap_approx, status |-> status_map(ts[i].Status),
                     message |-> ts[i].Message]>>
             ELSE <<>>)
            \o status_history(lp, ts, i + 1, n)

\* RaceState.get_track_status
get_track_status(lp, ts, n) ==
    LET history == status_history(lp, ts, 1, n)
    IN [current |-> IF history = <<>> THEN "Green" ELSE history[Len(history)].status,
        history |-> history]

\* round(float(v), 1) of a reading in hundredths, in tenths.
round_reading(v) == IF v = None THEN None ELSE RoundHalfEven(v, 10)

\* RaceState.get_weather
get_weather(lp, wd, n) ==
    LET lap_rows == SelectSeq(table_rows(lp, 1), LAMBDA r : r.row.LapNumber = n)
        timed == SelectSeq(lap_rows, LAMBDA r : r.row.Time # None)
        lap_time == IF timed = <<>> THEN None ELSE timed[1].row.Time
        dist(k) == IF wd[k].Time < lap_time THEN lap_time - wd[k].Time
                   ELSE wd[k].Time - lap_time
        idx == CHOOSE k \in DOMAIN wd :
                 \A j \in DOMAIN wd : dist(k) < dist(j) \/ (dist(k) = dist(j) /\ k <= j)
        weather_row == IF lap_time = None THEN wd[Len(wd)] ELSE wd[idx]
    IN IF wd = <<>> THEN [error |-> "No weather data available"]
       ELSE IF lap_rows = <<>> THEN [error |-> "No lap data for lap", lap |-> n]
       ELSE [air_temp |-> round_reading(weather_row.AirTemp),
             track_temp |-> round_reading(weather_row.TrackTemp),
             humidity |-> round_reading(weather_row.Humidity),
             wind_speed |-> round_reading(weather_row.WindSpeed),
             rainfall |-> weather_row.Rainfall]

\* The pit stops of the drivers of self.drivers from driver i on, each
\* with its driver.
RECURSIVE all_pits(_, _, _, _)
all_pits(lp, res, i, n) ==
    IF i > Len(Drivers) THEN <<>>
    ELSE LET stops == IF Drivers[i] \in DOMAIN res
                      THEN get_pit_stops(lp, Drivers[i], n) ELSE <<>>
         IN [k \in DOMAIN stops |->
               [driver |-> Drivers[i], lap |-> stops[k].lap,
                from_compound |-> stops[k].from_compound,
                to_compound |-> stops[k].to_compound,
                stint_number |-> stops[k].stint_number]]
            \o all_pits(lp, res, i + 1, n)

\* The drivers from driver i on that stopped completing laps before lap n.
RECURSIVE retirements(_, _, _, _)
retirements(lp, res, i, n) ==
    IF i > Len(Drivers) THEN <<>>
    ELSE LET rows == driver_laps(lp, Drivers[i], n)
             nums == {rows[k].LapNumber : k \in DOMAIN rows}
             last_lap == CHOOSE a \in nums : \A b \in nums : b <= a
         IN (IF Drivers[i] \in DOMAIN res /\ rows # <<>> /\ last_lap < n
             THEN <<[driver |-> Drivers[i], last_lap |-> last_lap]>>
             ELSE <<>>)
            \o retirements(lp, res, i + 1, n)

Abs(v) == IF v < 0 THEN -v ELSE v

\* sorted(movers, key = abs(change), reverse = True): the larger change
\* first, movers of equal change in the order of the standings.
RECURSIVE insert_mover(_, _)
insert_mover(sorted, m) ==
    IF sorted = <<>> THEN <<m>>
    ELSE IF Abs(m.change) > Abs(Head(sorted).change) THEN <<m>> \o sorted
    ELSE <<Head(sorted)>> \o insert_mover(Tail(sorted), m)

RECURSIVE movers_of(_, _, _)
movers_of(stnd, res, k) ==
    IF k = 0 THEN <<>>
    ELSE LET entry == stnd[k]
             grid == IF entry.driver \in DOMAIN res THEN res[entry.driver].GridPosition
                     ELSE None
             rest == movers_of(stnd, res, k - 1)
         IN IF grid # None /\ entry.position # None
               /\ Abs(grid - entry.position) >= MOVER_MIN
            THEN insert_mover(rest, [driver |-> entry.driver, grid |-> grid,
                                     current |-> entry.position,
                                     change |-> grid - entry.position])
            ELSE rest

\* RaceState.get_race_summary
get_race_summary(lp, res, ts, n) ==
    LET history == get_track_status(lp, ts, n).history
        stnd == get_standings(lp, res, n)
    IN [lap |-> n,
        total_laps |-> total_laps(lp),
        pit_stops |-> all_pits(lp, res, 1, n),
        safety_cars |-> SelectSeq(history,
                          LAMBDA e : e.status \in {"Safety Car", "VSC", "Red Flag"}),
        retirements |-> retirements(lp, res, 1, n),
        position_movers |-> movers_of(stnd, res, Len(stnd))]

\* RaceState.get_strategy_options
get_strategy_options(lp, res, code, n) ==
    LET stints == get_stints(lp, code, n)
        used_compounds == {stints[k].compound : k \in DOMAIN stints} \ {""}
        all_compounds == {"SOFT", "MEDIUM", "HARD"}
        stnd == SelectSeq(get_standings(lp, res, n), LAMBDA e : e.driver # code)
    IN [driver |-> code,
        remaining_laps |-> total_laps(lp) - n,
        available_compounds |-> IF all_compounds \ used_compounds = {} THEN all_compounds
                                ELSE all_compounds \ used_compounds,
        used_compounds |-> used_compounds,
        competitor_tyres |-> [k \in DOMAIN stnd |->
                                [driver |-> stnd[k].driver, compound |-> stnd[k].compound,
                                 tyre_age |-> stnd[k].tyre_age,
                                 position |-> stnd[k].position]]]

\* RaceState.get_position_history
get_position_history(lp, res, n) ==
    [d \in DOMAIN res |->
       [lap \in 1..n |->
          LET lap_row == SelectSeq(rows_of(lp, d), LAMBDA r : r.LapNumber = lap)
          IN IF lap_row = <<>> THEN None ELSE lap_row[1].Position]]

\* RaceState.compare_drivers
compare_drivers(lp, res, driver_a, driver_b, n) ==
    [driver_a |-> get_driver_info(lp, res, driver_a, n),
     driver_b |-> get_driver_info(lp, res, driver_b, n),
     gap |-> get_gap_to_driver(lp, driver_a, driver_b, n, 5),
     pace_comparison |->
        [d \in {driver_a, driver_b} |->
           [avg_last_5 |-> get_lap_times(lp, d, n, 5).average_pace,
            avg_last_5_str |-> get_lap_times(lp, d, n, 5).average_pace_str]]]

\* --------------------------------------------------------- tools (tools.py)

\* A bug: the last schema repeats the name of the one before it.
TOOL_SCHEMAS_repeated ==
    <<[name |-> "get_race_standings", required |-> {}],
      [name |-> "get_driver_info", required |-> {"driver_code"}],
      [name |-> "get_lap_times", required |-> {"driver_code"}],
      [name |-> "get_pit_stop_history", required |-> {"driver_code"}],
      [name |-> "get_tyre_strategy", required |-> {"driver_code"}],
      [name |-> "get_gap_between_drivers", required |-> {"driver_a", "driver_b"}],
      [name |-> "get_track_status", required |-> {}],
      [name |-> "get_weather_conditions", required |-> {}],
      [name |-> "get_race_summary", required |-> {}],
      [name |-> "get_race_summary", required |-> {"driver_a", "driver_b"}]>>

\* TOOL_SCHEMAS: the name and the required arguments of each schema.
TOOL_SCHEMAS ==
    <<[name |-> "get_race_standings", required |-> {}],
      [name |-> "get_driver_info", required |-> {"driver_code"}],
      [name |-> "get_lap_times", required |-> {"driver_code"}],
      [name |-> "get_pit_stop_history", required |-> {"driver_code"}],
      [name |-> "get_tyre_strategy", required |-> {"driver_code"}],
      [name |-> "get_gap_between_drivers", required |-> {"driver_a", "driver_b"}],
      [name |-> "get_track_status", required |-> {}],
      [name |-> "get_weather_conditions", required |-> {}],
      [name |-> "get_race_summary", required |-> {}],
      [name |-> "compare_drivers", required |-> {"driver_a", "driver_b"}]>>

\* dispatch.get(tool_name) of execute_tool: the handler, "" for None.
dispatch(tool_name) ==
    CASE tool_name = "get_race_standings" -> "_tool_standings"
      [] tool_name = "get_driver_info" -> "_tool_driver_info"
      [] tool_name = "get_lap_times" -> "_tool_lap_times"
      [] tool_name = "get_pit_stop_history" -> "_tool_pit_stops"
      [] tool_name = "get_tyre_strategy" -> "_tool_tyre_strategy"
      [] tool_name = "get_gap_between_drivers" -> "_tool_gap"
      [] tool_name = "get_track_status" -> "_tool_track_status"
      [] tool_name = "get_weather_conditions" -> "_tool_weather"
      [] tool_name = "get_race_summary" -> "_tool_race_summary"
      [] tool_name = "compare_drivers" -> "_tool_compare"
      [] OTHER -> ""

\* args.get("last_n_laps", 5)
last_n_laps(args) == IF args.last_n_laps = None THEN 5 ELSE args.last_n_laps

\* The first k elements of a sequence.
first_n(seq, k) == IF Len(seq) <= k THEN seq ELSE SubSeq(seq, 1, k)

\* execute_tool on a race state: the values the handler prints, in place of
\* the text it formats from them.
execute_tool(tool_name, args, lp, res, ts, wd, current_lap) ==
    LET fn == dispatch(tool_name)
    IN CASE fn = "" -> [text |-> "Unknown tool: " \o tool_name]
         [] fn = "_tool_standings" ->
              [lap |-> current_lap, total_laps |-> total_laps(lp),
               standings |-> get_standings(lp, res, current_lap)]
         [] fn = "_tool_driver_info" ->
              [info |-> get_driver_info(lp, res, args.driver_code, current_lap)]
         [] fn = "_tool_lap_times" ->
              [last_n |-> last_n_laps(args),
               data |-> get_lap_times(lp, args.driver_code, current_lap,
                                      last_n_laps(args))]
         [] fn = "_tool_pit_stops" ->
              [driver |-> args.driver_code,
               stops |-> get_pit_stops(lp, args.driver_code, current_lap)]
         [] fn = "_tool_tyre_strategy" ->
              [driver |-> args.driver_code, lap |-> current_lap,
               stints |-> get_stints(lp, args.driver_code, current_lap),
               deg |-> get_tyre_degradation(lp, args.driver_code, current_lap)]
         [] fn = "_tool_gap" ->
              [last_n |-> last_n_laps(args),
               gap |-> get_gap_to_driver(lp, args.driver_a, args.driver_b,
                                         current_lap, last_n_laps(args))]
         [] fn = "_tool_track_status" ->
              [current |-> get_track_status(lp, ts, current_lap).current,
               history |-> tail(get_track_status(lp, ts, current_lap).history, 5)]
         [] fn = "_tool_weather" ->
              [lap |-> current_lap, weather |-> get_weather(lp, wd, current_lap)]
         [] fn = "_tool_race_summary" ->
              LET summary == get_race_summary(lp, res, ts, current_lap)
              IN [summary EXCEPT !.position_movers = first_n(@, 5)]
         [] fn = "_tool_compare" ->
              [cmp |-> compare_drivers(lp, res, args.driver_a, args.driver_b,
                                       current_lap)]

\* ---------------------------------------------------- race state queries

\* The laps of the races of the model.
RaceLaps == MaxLaps + 1

\* Lap k of a driver: its lap time, the time it completes at, the rank,
\* the stint with its tyre and the age of the tyre, and the time of the
\* pit entry on the lap before a stop.
RaceRow(k, lt, tm, p, pit) ==
    [LapNumber |-> k, LapTime |-> lt, Time |-> tm, Position |-> p,
     Stint |-> IF pit # 0 /\ k >= pit THEN 2 ELSE 1,
     Compound |-> IF pit # 0 /\ k >= pit THEN "HARD" ELSE "MEDIUM",
     TyreLife |-> IF pit # 0 /\ k >= pit THEN k - pit + 1 ELSE k,
     PitInTime |-> IF k + 1 = pit THEN tm - 2000 ELSE None]

\* The laps 1..n of a driver that starts at from, lap k with the lap time
\* lts[k] or, when that is missing, after 90.1 s.
RECURSIVE RaceRows(_, _, _, _, _)
RaceRows(n, lts, from, p, pit) ==
    IF n = 0 THEN <<>>
    ELSE LET before == RaceRows(n - 1, lts, from, p, pit)
             start == IF n = 1 THEN from ELSE before[n - 1].Time
             took == IF lts[n] = None THEN 90100 ELSE lts[n]
         IN Append(before, RaceRow(n, lts[n], start + took, p, pit))

VerSeqs ==
    {RaceRows(n, lts, 0, 1, pit) :
        n \in 1..RaceLaps,
        lts \in {f \in [1..RaceLaps -> {None, 90000, 90200}] :
                    /\ f[1] # 90200
                    /\ \A k \in 2..RaceLaps : f[k] # None},
        pit \in {0, 2}}

HamSeqs ==
    {RaceRows(RaceLaps, [k \in 1..RaceLaps |-> 90100], 0, 2, 0),
     RaceRows(2, <<90020, None>>, 0, 2, 2)}

\* No lap, one lap, or one lap of which only the times are known.
LecSeqs ==
    {<<>>,
     RaceRows(1, <<90400>>, 0, 3, 0),
     <<[RaceRow(1, 90400, 90400, None, 0) EXCEPT
           !.Stint = None, !.Compound = "", !.TyreLife = None]>>}

FixedRace ==
    [VER |-> RaceRows(RaceLaps, [k \in 1..RaceLaps |-> 90000], 0, 1, 2),
     HAM |-> RaceRows(RaceLaps, [k \in 1..RaceLaps |-> 90100], 0, 2, 0),
     LEC |-> RaceRows(1, <<90400>>, 0, 3, 0)]

\* The races in which the laps of the leader vary, and those in which the
\* laps of the others do.
RaceTables ==
    [VER : VerSeqs, HAM : {FixedRace.HAM}, LEC : {FixedRace.LEC}]
    \cup [VER : {FixedRace.VER}, HAM : HamSeqs, LEC : LecSeqs]

\* The table without the laps after lap m.
Cut(lp, m) == [d \in DOMAIN lp |-> SelectSeq(lp[d], LAMBDA r : r.LapNumber <= m)]

\* The table with other laps after lap m: slower, a rank lower and on the
\* next set of tyres.
Alt(lp, m) ==
    [d \in DOMAIN lp |->
       [k \in DOMAIN lp[d] |->
          IF lp[d][k].LapNumber <= m THEN lp[d][k]
          ELSE [lp[d][k] EXCEPT
                  !.LapTime = IF @ = None THEN None ELSE @ + 40000,
                  !.Time = @ + 40000,
                  !.Position = IF @ = None THEN None ELSE @ + 1,
                  !.Stint = IF @ = None THEN None ELSE @ + 1,
                  !.Compound = "SOFT"]]]

\* The race states that share the laps of a race up to some lap.
Futures(lp) ==
    {lp} \cup {Cut(lp, m) : m \in 1..(RaceLaps - 1)}
         \cup {Alt(lp, m) : m \in 1..(RaceLaps - 1)}

\* session.results of a race state: VER starts third, HAM first, LEC from
\* the pit lane.
RaceResults ==
    [VER |-> [FullName |-> "Max Verstappen", TeamName |-> "Red Bull Racing",
              GridPosition |-> 3],
     HAM |-> [FullName |-> "Lewis Hamilton", TeamName |-> "Mercedes",
              GridPosition |-> 1],
     LEC |-> [FullName |-> "Charles Leclerc", TeamName |-> "Ferrari",
              GridPosition |-> None]]

\* Status logs of a race: a safety car or an unknown code at some time of
\* the race or at no time, then perhaps green again.
RaceStatusRows ==
    [Time : {None, 100000, 140000, 230000}, Status : {"4", "9"}, Message : {"SCDeployed"}]

RaceStatusLogs ==
    {<<>>} \cup {<<a>> : a \in RaceStatusRows}
           \cup {<<a, [Time |-> 250000, Status |-> "1", Message |-> "AllClear"]>> :
                    a \in RaceStatusRows}

FixedRaceLog ==
    <<[Time |-> 140000, Status |-> "4", Message |-> "SCDeployed"],
      [Time |-> 230000, Status |-> "1", Message |-> "AllClear"]>>

\* session.weather_data: readings in hundredths.
FixedWeather ==
    <<[Time |-> 60000, AirTemp |-> 2514, TrackTemp |-> 3056, Humidity |-> 4000,
       WindSpeed |-> 120, Rainfall |-> FALSE],
      [Time |-> 200000, AirTemp |-> 2478, TrackTemp |-> 2999, Humidity |-> None,
       WindSpeed |-> 310, Rainfall |-> TRUE]>>

\* Two race states loaded from sessions that share their first laps.
InitRace ==
    /\ NoApp
    /\ results = RaceResults
    /\ session_time = 0
    /\ standings = <<>>
    /\ called = FALSE
    /\ point = [kind |-> "none"]
    /\ NoReplay
    /\ telemetry = <<>>
    /\ rotation_deg = 0
    /\ corners = <<>>
    /\ NoOverlay
    /\ as_of_lap = 0
    /\ answer = [kind |-> "none"]
    /\ \/ /\ laps \in RaceTables
          /\ track_status = FixedRaceLog
          /\ weather_data = FixedWeather
       \/ /\ laps = FixedRace
          /\ track_status \in RaceStatusLogs
          /\ weather_data \in {<<>>, FixedWeather}
    /\ other_laps \in Futures(laps)

\* A query with as_of_lap = n, answered by both race states.
Asked(n, kind, args, mine, other) ==
    /\ answer.kind = "none"
    /\ as_of_lap' = n
    /\ answer' = [kind |-> kind, args |-> args, mine |-> mine, other |-> other]
    /\ UNCHANGED <<inputVars, session_time, standingsVars, point, replayVars,
                   circuitVars, overlayVars, other_laps, weather_data, appVars>>

DriverPairs == {<<"VER", "HAM">>, <<"HAM", "VER">>, <<"LEC", "VER">>}

GetStandings ==
    \E n \in 1..RaceLaps :
        Asked(n, "get_standings", <<>>,
              get_standings(laps, results, n), get_standings(other_laps, results, n))

GetDriverInfo ==
    \E n \in 1..RaceLaps, d \in DriverSet :
        Asked(n, "get_driver_info", <<d>>,
              get_driver_info(laps, results, d, n),
              get_driver_info(other_laps, results, d, n))

GetLapTimes ==
    \E n \in 1..RaceLaps, d \in DriverSet :
        Asked(n, "get_lap_times", <<d>>,
              get_lap_times(laps, d, n, 5), get_lap_times(other_laps, d, n, 5))

GetPitStops ==
    \E n \in 1..RaceLaps, d \in DriverSet :
        Asked(n, "get_pit_stops", <<d>>,
              get_pit_stops(laps, d, n), get_pit_stops(other_laps, d, n))

GetStints ==
    \E n \in 1..RaceLaps, d \in DriverSet :
        Asked(n, "get_stints", <<d>>,
              get_stints(laps, d, n), get_stints(other_laps, d, n))

GetTyreDegradation ==
    \E n \in 1..RaceLaps, d \in DriverSet :
        Asked(n, "get_tyre_degradation", <<d>>,
              get_tyre_degradation(laps, d, n), get_tyre_degradation(other_laps, d, n))

GetGapToDriver ==
    \E n \in 1..RaceLaps, p \in DriverPairs :
        Asked(n, "get_gap_to_driver", p,
              get_gap_to_driver(laps, p[1], p[2], n, 5),
              get_gap_to_driver(other_laps, p[1], p[2], n, 5))

GetTrackStatus ==
    \E n \in 1..RaceLaps :
        Asked(n, "get_track_status", <<>>,
              get_track_status(laps, track_status, n),
              get_track_status(other_laps, track_status, n))

GetWeather ==
    \E n \in 1..RaceLaps :
        Asked(n, "get_weather", <<>>,
              get_weather(laps, weather_data, n), get_weather(other_laps, weather_data, n))

GetRaceSummary ==
    \E n \in 1..RaceLaps :
        Asked(n, "get_race_summary", <<>>,
              get_race_summary(laps, results, track_status, n),
              get_race_summary(other_laps, results, track_status, n))

GetStrategyOptions ==
    \E n \in 1..RaceLaps, d \in DriverSet :
        Asked(n, "get_strategy_options", <<d>>,
              get_strategy_options(laps, results, d, n),
              get_strategy_options(other_laps, results, d, n))

GetPositionHistory ==
    \E n \in 1..RaceLaps :
        Asked(n, "get_position_history", <<>>,
              get_position_history(laps, results, n),
              get_position_history(other_laps, results, n))

CompareDrivers ==
    \E n \in 1..RaceLaps, p \in DriverPairs :
        Asked(n, "compare_drivers", p,
              compare_drivers(laps, results, p[1], p[2], n),
              compare_drivers(other_laps, results, p[1], p[2], n))

\* The names a model may ask for: those of the schemas, and one of its own.
ToolNames == {TOOL_SCHEMAS[i].name : i \in DOMAIN TOOL_SCHEMAS} \cup {"get_fuel_load"}

\* The arguments of a call: the drivers, and the number of laps or none.
ToolArgs ==
    {[driver_code |-> "VER", driver_a |-> "VER", driver_b |-> "HAM",
      last_n_laps |-> None],
     [driver_code |-> "LEC", driver_a |-> "LEC", driver_b |-> "VER",
      last_n_laps |-> 2]}

\* A tool call of the agent at the current lap: the model is offered
\* tools = TOOL_SCHEMAS and the tool it names is executed.
ExecuteTool ==
    \E n \in 1..RaceLaps, tool_name \in ToolNames, args \in ToolArgs :
        Asked(n, "execute_tool",
              [tools |-> TOOL_SCHEMAS, tool_name |-> tool_name, arguments |-> args],
              execute_tool(tool_name, args, laps, results, track_status,
                           weather_data, n),
              execute_tool(tool_name, args, other_laps, results, track_status,
                           weather_data, n))

NextRace ==
    \/ GetStandings \/ GetDriverInfo \/ GetLapTimes \/ GetPitStops \/ GetStints
    \/ GetTyreDegradation \/ GetGapToDriver \/ GetTrackStatus \/ GetWeather
    \/ GetRaceSummary \/ GetStrategyOptions \/ GetPositionHistory
    \/ CompareDrivers \/ ExecuteTool

SpecRace == InitRace /\ [][NextRace]_vars

\* ------------------------------------------------------- agent (agent.py)

MAX_TOOL_ROUNDS == 5

\* A loop that makes one round more.
in_range_inclusive(round_num, stop) == round_num >= 0 /\ round_num <= stop

\* round_num in range(stop)
in_range(round_num, stop) == round_num >= 0 /\ round_num < stop

APOLOGY == "Sorry, I'm having trouble connecting to the AI service right now."

RAN_OUT ==
    "I gathered the data but ran out of processing steps. Please try a simpler question."

\* json.loads(tool_call.function.arguments), {} on JSONDecodeError.  The
\* text of the arguments is valid JSON for an object, or is not valid JSON.
parse_arguments(text) == IF text.json THEN text.object ELSE <<>>

\* The keys a handler reads as args[key]; a key read with args.get is not
\* among them.
subscripted(fn) ==
    CASE fn \in {"_tool_driver_info", "_tool_lap_times", "_tool_pit_stops",
                 "_tool_tyre_strategy"} -> {"driver_code"}
      [] fn \in {"_tool_gap", "_tool_compare"} -> {"driver_a", "driver_b"}
      [] OTHER -> {}

\* execute_tool raises KeyError when the handler reads a key the arguments
\* do not have.
tool_raises(tool_name, arguments) ==
    \E key \in subscripted(dispatch(tool_name)) : key \notin DOMAIN arguments

\* The arguments as the handlers read them: None for a key that is absent.
tool_args(arguments) ==
    [key \in {"driver_code", "driver_a", "driver_b", "last_n_laps"} |->
        IF key \in DOMAIN arguments THEN arguments[key] ELSE None]

\* The loop over choice.message.tool_calls from call k on: the name is
\* recorded, the tool is executed and its result appended as a tool message.
\* An exception of the tool leaves the loop and run_agent.
RECURSIVE run_tools(_, _, _, _, _, _)
run_tools(calls, k, msgs, used, rs, current_lap) ==
    IF k > Len(calls)
    THEN [messages |-> msgs, tools_used |-> used, raised |-> FALSE]
    ELSE LET arguments == parse_arguments(calls[k].arguments)
         IN IF tool_raises(calls[k].name, arguments)
            THEN [messages |-> msgs, tools_used |-> Append(used, calls[k].name),
                  raised |-> TRUE]
            ELSE run_tools(
                     calls, k + 1,
                     Append(msgs, [role |-> "tool", tool_call_id |-> calls[k].id,
                                   content |-> execute_tool(
                                       calls[k].name, tool_args(arguments), rs.laps,
                                       rs.results, rs.track_status, rs.weather_data,
                                       current_lap)]),
                     Append(used, calls[k].name), rs, current_lap)

\* messages[-1].get("content", "") or the sentence about running out.
last_content(msgs) ==
    IF msgs = <<>> THEN [text |-> RAN_OUT]
    ELSE IF msgs[Len(msgs)].content = [text |-> ""] THEN [text |-> RAN_OUT]
    ELSE msgs[Len(msgs)].content

\* The race state the agent is given.
agent_race == [laps |-> laps, results |-> results, track_status |-> track_status,
               weather_data |-> weather_data]

\* Tool call k of a response of round r, in one of three styles: standings
\* and an unknown tool whose arguments are not JSON; tools with the
\* arguments they need; tools whose arguments are not JSON.
tool_call(style, r, k) ==
    LET odd == k % 2 = 1
    IN [id |-> 10 * r + k,
        name |-> CASE style = "plain" ->
                        IF odd THEN "get_race_standings" ELSE "get_fuel_load"
                   [] style = "args" ->
                        IF odd THEN "get_driver_info" ELSE "get_gap_between_drivers"
                   [] OTHER ->
                        IF odd THEN "get_track_status" ELSE "get_driver_info",
        arguments |-> CASE style = "plain" ->
                             IF odd THEN [json |-> TRUE, object |-> <<>>]
                             ELSE [json |-> FALSE]
                        [] style = "args" ->
                             IF odd
                             THEN [json |-> TRUE, object |-> [driver_code |-> "VER"]]
                             ELSE [json |-> TRUE,
                                   object |-> [driver_a |-> "VER", driver_b |-> "HAM"]]
                        [] OTHER -> [json |-> FALSE]]

\* What litellm.completion does in round r: it raises, or returns a message
\* with a content and no tool call, or a message with up to MaxCalls tool
\* calls.
Completions(r) ==
    {[kind |-> "raise"]}
    \cup {[kind |-> "message", content |-> [text |-> c], tool_calls |-> <<>>] :
             c \in {"", "Box this lap."}}
    \cup {[kind |-> "message", content |-> [text |-> ""],
           tool_calls |-> [k \in 1..n |-> tool_call(style, r, k)]] :
             style \in {"plain", "args", "broken"}, n \in 1..MaxCalls}

\* The history of a conversation: none, or one exchange.
Histories ==
    {<<>>,
     <<[role |-> "user", content |-> [text |-> "Who leads?"]],
       [role |-> "assistant", content |-> [text |-> "VER leads."]]>>}

\* A loaded race and no agent run yet.
InitAgent ==
    /\ laps = FixedRace
    /\ results = RaceResults
    /\ session_time = 0
    /\ standings = <<>>
    /\ called = FALSE
    /\ point = [kind |-> "none"]
    /\ NoReplay
    /\ track_status = FixedRaceLog
    /\ telemetry = <<>>
    /\ rotation_deg = 0
    /\ corners = <<>>
    /\ NoOverlay
    /\ weather_data = FixedWeather
    /\ other_laps = <<>>
    /\ as_of_lap = 2
    /\ answer = [kind |-> "none"]
    /\ NoApp

\* run_agent up to its loop: the system prompt, the history and the user
\* message with its lap context.
RunAgent ==
    /\ agent.pc = "idle"
    /\ \E history \in Histories :
          agent' = [pc |-> "running", round_num |-> 0,
                    messages |-> <<[role |-> "system", content |-> [text |-> "system"]]>>
                                 \o history
                                 \o <<[role |-> "user",
                                       content |-> [text |-> "message",
                                                    lap |-> as_of_lap,
                                                    total_laps |-> total_laps(laps)]]>>,
                    tools_used |-> <<>>,
                    response |-> [kind |-> "none"],
                    reply |-> [text |-> ""]]
    /\ UNCHANGED <<inputVars, session_time, standingsVars, point, replayVars,
                   circuitVars, overlayVars, raceVars, pending, service>>

\* One round of the loop: the completion call and what run_agent does with
\* its response; after the last round, the return that follows the loop.
Completion ==
    /\ agent.pc = "running"
    /\ in_range(agent.round_num, MAX_TOOL_ROUNDS)
    /\ \E response \in Completions(agent.round_num + 1) :
          LET called_agent == [agent EXCEPT !.round_num = @ + 1, !.response = response]
          IN IF response.kind = "raise"
             THEN agent' = [called_agent EXCEPT !.pc = "returned",
                                                !.reply = [text |-> APOLOGY]]
             ELSE IF response.tool_calls # <<>>
             THEN \E out \in {run_tools(
                                  response.tool_calls, 1,
                                  Append(agent.messages,
                                         [role |-> "assistant",
                                          content |-> response.content,
                                          tool_calls |-> response.tool_calls]),
                                  agent.tools_used, agent_race, as_of_lap)} :
                  \E looped \in {[called_agent EXCEPT !.messages = out.messages,
                                                       !.tools_used = out.tools_used]} :
                     IF out.raised
                     THEN agent' = [looped EXCEPT !.pc = "raised"]
                     ELSE IF in_range(looped.round_num, MAX_TOOL_ROUNDS)
                     THEN agent' = looped
                     ELSE agent' = [looped EXCEPT !.pc = "returned",
                                                  !.reply = last_content(out.messages)]
             ELSE agent' = [called_agent EXCEPT !.pc = "returned",
                                                !.reply = response.content]
    /\ UNCHANGED <<inputVars, session_time, standingsVars, point, replayVars,
                   circuitVars, overlayVars, raceVars, pending, service>>

NextAgent == RunAgent \/ Completion

SpecAgent == InitAgent /\ [][NextAgent]_vars

\* ---------------------------------------------- RaceService (services.py)

\* RaceService.get_instance: the class keeps the first object it makes.
get_instance(svc) ==
    IF svc.instance = None
    THEN [svc EXCEPT !.instance = svc.created + 1, !.created = @ + 1]
    ELSE svc

\* A load that forgets the cached state when the new one cannot be built.
load_race_forgetting(svc, built) ==
    [svc EXCEPT !.race_state = IF built.kind = "state" THEN built ELSE NoState]

\* RaceService.load_race: RaceState(year, round_number) is built before it
\* is assigned, so a constructor that raises leaves _race_state as it was.
load_race(svc, built) ==
    IF built.kind = "state" THEN [svc EXCEPT !.race_state = built] ELSE svc

\* The property race_state: the cached state, or RuntimeError.
race_state(svc) ==
    IF svc.race_state = NoState THEN [kind |-> "RuntimeError"] ELSE svc.race_state

\* The property is_loaded.
is_loaded(svc) == svc.race_state # NoState

\* What RaceState(year, round_number) gives for load number n: a state, or
\* an exception of the session load.
Builds(n) ==
    {[kind |-> "state", year |-> y, round_number |-> r, load |-> n] :
        y \in {2023, 2024}, r \in {1, 2}}
    \cup {[kind |-> "raises"]}

InitService ==
    /\ laps = FixedRace
    /\ results = RaceResults
    /\ session_time = 0
    /\ standings = <<>>
    /\ called = FALSE
    /\ point = [kind |-> "none"]
    /\ NoReplay
    /\ NoCircuit
    /\ NoOverlay
    /\ NoRace
    /\ NoApp

\* A route or a caller asks for the service.
GetInstance ==
    /\ service' = [get_instance(service) EXCEPT
                      !.returned = @ \cup {get_instance(service).instance}]
    /\ UNCHANGED <<inputVars, session_time, standingsVars, point, replayVars,
                   circuitVars, overlayVars, raceVars, pending, agent>>

\* POST /load: the service is fetched and asked to load; an exception of the
\* load becomes HTTP 500.
LoadRace ==
    /\ service.loads < MaxLoads
    /\ \E built \in Builds(service.loads + 1) :
          LET svc == get_instance(service)
          IN service' = [load_race(svc, built) EXCEPT
                            !.returned = @ \cup {svc.instance},
                            !.loads = @ + 1,
                            !.succeeded = IF built.kind = "state" THEN @ + 1 ELSE @,
                            !.last_built = IF built.kind = "state" THEN built ELSE @,
                            !.response = IF built.kind = "state" THEN "metadata"
                                         ELSE "500"]
    /\ UNCHANGED <<inputVars, session_time, standingsVars, point, replayVars,
                   circuitVars, overlayVars, raceVars, pending, agent>>

\* GET /standings: 400 while no race is loaded, else the standings of the
\* cached state.
ReadRace ==
    /\ LET svc == get_instance(service)
       IN service' = [svc EXCEPT
                         !.returned = @ \cup {svc.instance},
                         !.response = IF ~is_loaded(svc) THEN "400" ELSE "standings"]
    /\ UNCHANGED <<inputVars, session_time, standingsVars, point, replayVars,
                   circuitVars, overlayVars, raceVars, pending, agent>>

NextService == GetInstance \/ LoadRace \/ ReadRace

SpecService == InitService /\ [][NextService]_vars

\* ------------------------------------------------- properties: standings

SetMax(S) == CHOOSE x \in S : \A y \in S : y <= x

\* The lap-completion times of a driver's rows.
CompletionTimes(d) == {laps[d][k].Time : k \in DOMAIN laps[d]} \ {None}

\* L: the driver's last known cumulative time, None when it has none.
LastKnown(d) ==
    IF CompletionTimes(d) = {} THEN None ELSE SetMax(CompletionTimes(d))

\* The driver's last cumulative time at or before the query time.
CumAt(d) ==
    LET T == {x \in CompletionTimes(d) : x <= session_time}
    IN IF T = {} THEN None ELSE SetMax(T)

NonFinishing(d) == results[d] = "Retired"

Idx == 1..Len(standings)

EntryOf(d) == standings[CHOOSE i \in Idx : standings[i].driver = d]

\* The lap-deficit string, written out.
LapString(n) == IF n = 1 THEN "+1 LAP" ELSE "+" \o ToString(n) \o " LAPS"

\* Entry i is in the seconds branch: classified, not behind the leader on
\* laps, and both its own and the leader's cumulative time are known.
SecondsBranch(i) ==
    /\ i >= 2
    /\ standings[i].position # None
    /\ standings[i].lap >= standings[1].lap
    /\ CumAt(standings[i].driver) # None
    /\ CumAt(standings[1].driver) # None

\* What a difference of ms milliseconds renders as: empty up to the 0.05 s
\* floor, else one decimal.
Rendered(ms, str) ==
    /\ (ms <= 50 <=> str = "")
    /\ (ms > 50 => str = fmt_secs(ms))
    /\ (ms = 30 => str = "")
    /\ (ms = 80 => str = "+0.1s")

\* C1: in the returned list every retired entry comes after every entry that
\* is not retired; among the entries that are not retired, those with a known
\* position come before those without one, in ascending order of position.
C1_StandingsOrdered ==
    called =>
      \A i, j \in Idx :
        i < j =>
          /\ (standings[i].retired => standings[j].retired)
          /\ (~standings[i].retired /\ ~standings[j].retired =>
                /\ (standings[i].position = None => standings[j].position = None)
                /\ (standings[i].position # None /\ standings[j].position # None
                      => standings[i].position <= standings[j].position))

\* A retired driver frozen in position 1 stands behind an unclassified
\* driver, which stands behind a classified one.
C1_Witness ==
    /\ called
    /\ Len(standings) = 3
    /\ ~standings[1].retired /\ standings[1].position = 2
    /\ ~standings[2].retired /\ standings[2].position = None
    /\ standings[3].retired /\ standings[3].position = 1

\* C2: a non-finishing driver whose last known cumulative time is L is
\* marked retired exactly when the query time exceeds L + 120 s: not at
\* L + 119 s, and at L + 121 s.
C2_RetirementGrace ==
    called =>
      \A d \in DriverSet :
        NonFinishing(d) /\ LastKnown(d) # None =>
          /\ (EntryOf(d).retired <=> session_time > LastKnown(d) + 120000)
          /\ (session_time = LastKnown(d) + 119000 => ~EntryOf(d).retired)
          /\ (session_time = LastKnown(d) + 121000 => EntryOf(d).retired)

C2_Witness ==
    /\ called
    /\ \E d \in DriverSet :
         /\ NonFinishing(d) /\ LastKnown(d) # None
         /\ session_time = LastKnown(d) + 121000
         /\ EntryOf(d).retired

\* C3 as stated: every non-leader entry whose lap is N >= 1 lower than the
\* leader's has the gap "+1 LAP" or "+N LAPS", and the same interval.
C3_LapDeficitAnyEntry ==
    called =>
      \A i \in Idx :
        i >= 2 /\ standings[i].lap < standings[1].lap =>
          /\ standings[i].gap = LapString(standings[1].lap - standings[i].lap)
          /\ standings[i].interval = standings[i].gap

\* C3 as amended: the same for every non-leader entry that has a known
\* position; an entry without one has an empty gap and interval.
C3_LapDeficitClassified ==
    called =>
      \A i \in Idx :
        i >= 2 /\ standings[i].lap < standings[1].lap =>
          IF standings[i].position # None
          THEN /\ standings[i].gap = LapString(standings[1].lap - standings[i].lap)
               /\ standings[i].interval = standings[i].gap
          ELSE standings[i].gap = "" /\ standings[i].interval = ""

\* A classified driver two laps behind the leader.
C3_Witness ==
    /\ called
    /\ \E i \in Idx :
         /\ standings[i].lap = standings[1].lap - 2
         /\ standings[i].position # None
         /\ CumAt(standings[i].driver) # None
         /\ standings[i].gap = "+2 LAPS" /\ standings[i].interval = "+2 LAPS"

\* C4 as stated: for a non-leader entry not behind the leader on laps, with
\* both cumulative times known, the gap is "+X.Xs" exactly when the
\* difference exceeds 0.05 s and is empty otherwise.
C4_GapSecondsAnyEntry ==
    called =>
      \A i \in Idx :
        /\ i >= 2
        /\ standings[i].lap >= standings[1].lap
        /\ CumAt(standings[i].driver) # None
        /\ CumAt(standings[1].driver) # None
        => Rendered(CumAt(standings[i].driver) - CumAt(standings[1].driver),
                    standings[i].gap)

\* C4 as amended: the same for an entry that has a known position; an entry
\* without one has an empty gap whatever the difference.
C4_GapSecondsClassified ==
    called =>
      \A i \in Idx :
        /\ (SecondsBranch(i) =>
              Rendered(CumAt(standings[i].driver) - CumAt(standings[1].driver),
                       standings[i].gap))
        /\ (i >= 2 /\ standings[i].position = None => standings[i].gap = "")

C4_Witness ==
    /\ called
    /\ \E i, j \in Idx :
         /\ SecondsBranch(i) /\ SecondsBranch(j)
         /\ CumAt(standings[i].driver) - CumAt(standings[1].driver) = 80
         /\ standings[i].gap = "+0.1s"
         /\ CumAt(standings[j].driver) - CumAt(standings[1].driver) = 30
         /\ standings[j].gap = ""

\* C5 as stated: in the seconds branch the interval is rendered from the
\* entry's cumulative time minus that of the entry at index i - 1; at index 1
\* it equals the gap.
C5_IntervalAgainstPrevious ==
    called =>
      \A i \in Idx :
        SecondsBranch(i) =>
          /\ CumAt(standings[i - 1].driver) # None
          /\ Rendered(CumAt(standings[i].driver) - CumAt(standings[i - 1].driver),
                      standings[i].interval)
          /\ (i = 2 => standings[i].interval = standings[i].gap)

\* The nearest entry before index i that has a cumulative time.
PrevWithCum(i) ==
    SetMax({j \in 1..(i - 1) : CumAt(standings[j].driver) # None})

\* C5 as amended: the interval is rendered from the entry's cumulative time
\* minus that of the nearest preceding entry that has one (the entry at
\* i - 1 unless it has none); at index 1 it equals the gap.
C5_IntervalAgainstPrevCum ==
    called =>
      \A i \in Idx :
        SecondsBranch(i) =>
          /\ Rendered(CumAt(standings[i].driver)
                        - CumAt(standings[PrevWithCum(i)].driver),
                      standings[i].interval)
          /\ (i = 2 => standings[i].interval = standings[i].gap)

\* The third entry is 0.08 s behind the leader and 0.05 s behind the second.
C5_Witness ==
    /\ called
    /\ Len(standings) = 3
    /\ SecondsBranch(2) /\ SecondsBranch(3)
    /\ standings[2].interval = standings[2].gap
    /\ standings[3].gap = "+0.1s"
    /\ standings[3].interval = ""

\* C6: the entry at index 0 has an empty gap and an empty interval.
C6_LeaderEmpty ==
    called /\ Len(standings) >= 1 =>
      standings[1].gap = "" /\ standings[1].interval = ""

C6_Witness ==
    /\ called
    /\ Len(standings) = 3
    /\ CumAt(standings[1].driver) # None
    /\ standings[1].gap = "" /\ standings[1].interval = ""
    /\ standings[2].gap # "" /\ standings[3].gap # ""

\* ---------------------------------------------------- properties: replay

SetMin(S) == CHOOSE x \in S : \A y \in S : x <= y

CeilDiv(a, b) == (a + b - 1) \div b

\* The lap starts and the lap completions of the session.
LapStarts ==
    UNION {{laps[d][k].LapStartTime : k \in DOMAIN laps[d]} : d \in DriverSet} \ {None}

LapEnds ==
    UNION {{laps[d][k].Time : k \in DOMAIN laps[d]} : d \in DriverSet} \ {None}

\* build_replay_data has returned its meta.
Built == pc \in {"built", "served", "figure", "key_error"}

\* C7: for a race span [start, end] with start < end and a sample interval
\* I > 0, the time grid has exactly ceil((end - start) / I) points, is
\* strictly increasing with constant step I, starts at start and has every
\* point strictly below end, start being the earliest lap start and end the
\* latest lap completion over all drivers.
C7_TimeGrid ==
    Built =>
      /\ race_start = SetMin(LapStarts)
      /\ race_end = SetMax(LapEnds)
      /\ Len(time_grid) = CeilDiv(race_end - race_start, sample_interval)
      /\ \A k \in DOMAIN time_grid :
           /\ time_grid[k] = race_start + (k - 1) * sample_interval
           /\ time_grid[k] < race_end

\* The times of the position samples of driver num that have a time, an X
\* and a Y.
SampleTimes(num) ==
    {pos_data[num][k].SessionTime :
        k \in {j \in DOMAIN pos_data[num] :
                 /\ pos_data[num][j].SessionTime # None
                 /\ pos_data[num][j].X # None
                 /\ pos_data[num][j].Y # None}}

\* t lies between the first and the last position sample of driver num.
InSampleRange(num, t) ==
    /\ SampleTimes(num) # {}
    /\ SetMin(SampleTimes(num)) <= t
    /\ t <= SetMax(SampleTimes(num))

CodeOf(num) == Drivers[CHOOSE i \in DOMAIN DriverNumbers : DriverNumbers[i] = num]

\* The entries of driver num in frame i.
EntriesOf(num, i) ==
    {k \in DOMAIN frames[i] : frames[i][k].driver = CodeOf(num)}

\* The telemetry samples of driver num that have a time.
CarSamples(num) ==
    IF num \notin DOMAIN car_data THEN {}
    ELSE {car_data[num][k] : k \in {j \in DOMAIN car_data[num] :
                                      car_data[num][j].SessionTime # None}}

\* The channel has a value for driver num at time t: t is a sample with a
\* value or lies between two neighbouring samples with values.
ChannelKnown(num, t, name) ==
    \/ \E s \in CarSamples(num) : s.SessionTime = t /\ s[name] # None
    \/ \E a, b \in CarSamples(num) :
         /\ a.SessionTime < t /\ t < b.SessionTime
         /\ a[name] # None /\ b[name] # None
         /\ ~\E c \in CarSamples(num) :
               a.SessionTime < c.SessionTime /\ c.SessionTime < b.SessionTime

\* C8: a driver has no entry in the frame of a grid time before its first or
\* after its last position sample; at a grid time between them it has one
\* entry whatever telemetry is missing, and a missing telemetry channel is 0
\* in that entry.
C8_AbsentOutsideSamples ==
    Built =>
      \A i \in DOMAIN frames : \A num \in DOMAIN pos_data :
         /\ ~InSampleRange(num, time_grid[i + 1]) => EntriesOf(num, i) = {}
         /\ InSampleRange(num, time_grid[i + 1]) => Cardinality(EntriesOf(num, i)) = 1
         /\ \A k \in EntriesOf(num, i) :
              /\ ~ChannelKnown(num, time_grid[i + 1], "Speed") => frames[i][k].speed = 0
              /\ ~ChannelKnown(num, time_grid[i + 1], "nGear") => frames[i][k].gear = 0

\* Driver 1 has samples and is absent from a frame that holds driver 44, and
\* is in another frame with no telemetry at that time and speed and gear 0.
C8_Witness ==
    /\ Built
    /\ "1" \in DOMAIN pos_data
    /\ SampleTimes("1") # {}
    /\ \E i \in DOMAIN frames :
         /\ ~InSampleRange("1", time_grid[i + 1])
         /\ frames[i] # <<>>
         /\ EntriesOf("1", i) = {}
    /\ \E i \in DOMAIN frames : \E k \in EntriesOf("1", i) :
         /\ ~ChannelKnown("1", time_grid[i + 1], "Speed")
         /\ frames[i][k].speed = 0
         /\ frames[i][k].gear = 0

\* The drivers that have a position at grid index i.
DriversAt(i) ==
    {CodeOf(num) : num \in {n \in DOMAIN pos_data : InSampleRange(n, time_grid[i + 1])}}

\* out holds a frame for exactly the grid indices at which a driver has a
\* position, and that frame lists exactly those drivers.
FramesIffPosition(out) ==
    \A i \in DOMAIN frames :
       /\ i \in DOMAIN out <=> DriversAt(i) # {}
       /\ i \in DOMAIN out =>
            {out[i].drivers[k].driver : k \in DOMAIN out[i].drivers} = DriversAt(i)

EndpointFrames == pc = "served" => FramesIffPosition(frames_out)

PageFrames == pc \in {"figure", "key_error"} => FramesIffPosition(fig_frames)

\* C9: the frame assembler (the /replay endpoint and the replay page) emits
\* a frame for a grid index if and only if at least one driver has an
\* interpolated position at that index, and an emitted frame lists every
\* driver that has a position at that index.
C9_FrameIffPosition == EndpointFrames /\ PageFrames

\* --------------------------------------------- properties: point queries

\* The laps of driver d completed by the query time.
CompletedLaps(d) ==
    {k \in DOMAIN laps[d] : laps[d][k].Time # None /\ laps[d][k].Time <= session_time}

\* C10: get_current_lap on the lookup of _build_lap_lookup returns the number
\* of the last lap whose completion time is <= t, and 1 when no lap of the
\* driver has completed by t.
C10_CurrentLap ==
    point.kind = "lap" =>
      point.value = (IF CompletedLaps(point.driver) = {} THEN 1
                     ELSE SetMax(CompletedLaps(point.driver)))

\* The query falls on the completion of lap 2, after a lap 1 with no time.
C10_Witness ==
    /\ point.kind = "lap"
    /\ Len(laps[point.driver]) = 2
    /\ laps[point.driver][1].Time = None
    /\ laps[point.driver][2].Time = session_time
    /\ point.value = 2

\* The rows of driver d whose lap has completed by the query time.
RowsDone(d) ==
    {k \in DOMAIN laps[d] : laps[d][k].Time # None /\ laps[d][k].Time <= session_time}

\* The rows of the status log recorded by the query time.
StatusDone ==
    {k \in DOMAIN track_status :
        track_status[k].Time # None /\ track_status[k].Time <= session_time}

\* C11: a point query for a driver that has no row, no row with a time, or
\* no entry yet at the query time returns the default: lap 1, position None,
\* compound ("UNKNOWN", 0); the track status is ("1", "Green") before the
\* first recorded change.
C11_QueryDefaults ==
    /\ point.kind = "lap" /\ RowsDone(point.driver) = {} => point.value = 1
    /\ point.kind = "position"
         /\ (\A k \in RowsDone(point.driver) : laps[point.driver][k].Position = None)
         => point.value = None
    /\ point.kind = "compound" /\ RowsDone(point.driver) = {}
         => point.value = [compound |-> "UNKNOWN", life |-> 0]
    /\ point.kind = "status" /\ StatusDone = {}
         => point.value = [code |-> "1", name |-> "Green"]

\* The compound of a driver is asked before the driver's first lap ends.
C11_Witness ==
    /\ point.kind = "compound"
    /\ \E k \in DOMAIN laps[point.driver] : laps[point.driver][k].Time # None
    /\ RowsDone(point.driver) = {}
    /\ point.value = [compound |-> "UNKNOWN", life |-> 0]

\* C12: a driver is in the pit at time t if and only if one of its pit
\* events has an entry and an exit with entry <= t <= exit, or has an entry
\* and no exit with entry <= t <= entry + 30 s.
C12_InPit ==
    point.kind = "pit" =>
      (point.value <=>
         \E k \in DOMAIN laps[point.driver] :
            LET in == laps[point.driver][k].PitInTime
                out == laps[point.driver][k].PitOutTime
            IN \/ in # None /\ out # None /\ in <= session_time /\ session_time <= out
               \/ in # None /\ out = None /\ in <= session_time
                    /\ session_time <= in + 30000)

\* The query falls 30 s after a pit entry with no exit, and the driver is in
\* the pit.
C12_Witness ==
    /\ point.kind = "pit"
    /\ point.value = TRUE
    /\ \E k \in DOMAIN laps[point.driver] :
          /\ laps[point.driver][k].PitInTime # None
          /\ laps[point.driver][k].PitOutTime = None
          /\ session_time = laps[point.driver][k].PitInTime + 30000
    /\ \A k \in DOMAIN laps[point.driver] :
          laps[point.driver][k].PitOutTime = None

\* ------------------------------------------------- properties: DRS zones

\* The lap the zones are taken from.
SelectedLap == telemetry[Len(telemetry)]

DrsOpen(k) == SelectedLap[k].DRS # None /\ SelectedLap[k].DRS >= 10

\* Open and with a position.
DrsUsable(k) == DrsOpen(k) /\ SelectedLap[k].X # None

\* The maximal runs a..b of samples that satisfy P.
MaximalRuns(P(_)) ==
    {r \in (1..Len(SelectedLap)) \X (1..Len(SelectedLap)) :
        /\ r[1] <= r[2]
        /\ \A k \in r[1]..r[2] : P(k)
        /\ r[1] = 1 \/ ~P(r[1] - 1)
        /\ r[2] = Len(SelectedLap) \/ ~P(r[2] + 1)}

RunLen(r) == r[2] - r[1] + 1

Selected == pc = "zones" /\ Cardinality({k \in DOMAIN SelectedLap : DrsOpen(k)}) >= 10

\* C13 as stated: every maximal run of DRS-active samples of the selected
\* lap gives exactly one zone, unless it is shorter than 5 samples.
C13_RunsOfFive ==
    Selected =>
      Len(drs_zones) = Cardinality({r \in MaximalRuns(DrsOpen) : RunLen(r) >= 5})

\* C13, amended: every maximal run of samples that are DRS-active and have a
\* position gives exactly one zone, which starts at the first sample of the
\* run, unless the run has 5 samples or fewer.
C13_RunsOfSix ==
    Selected =>
      LET kept == {r \in MaximalRuns(DrsUsable) : RunLen(r) > 5}
      IN /\ Len(drs_zones) = Cardinality(kept)
         /\ \A r \in kept :
               \E z \in DOMAIN drs_zones :
                  /\ Len(drs_zones[z].x) = RunLen(r)
                  /\ rotation_deg = 0 => drs_zones[z].x[1] = Rat(SelectedLap[r[1]].X, 1)

\* A lap with a run of three and a run of six, and one zone.
C13_Witness ==
    /\ Selected
    /\ \E r \in MaximalRuns(DrsUsable) : RunLen(r) = 3
    /\ \E r \in MaximalRuns(DrsUsable) : RunLen(r) = 6
    /\ Len(drs_zones) = 1

\* C21: every zone polyline has at most 30 points, whatever the length of
\* the run it was built from.
C21_ZonePoints ==
    pc = "zones" => \A z \in DOMAIN drs_zones : Len(drs_zones[z].x) <= 30

\* What the stride does give: a run of up to 30 samples is kept whole, and
\* no polyline reaches 60 points.
ZoneUnderSixty ==
    pc = "zones" =>
       \A z \in DOMAIN drs_zones :
          /\ Len(drs_zones[z].x) < 60
          /\ Len(drs_zones[z].x) = Len(drs_zones[z].y)
          /\ Len(SelectedLap) <= 30 => Len(drs_zones[z].x) = Len(SelectedLap)

\* ------------------------------------------------ properties: driver loop

\* The entries of a frame, whatever their order.
entry_set(entries) == {entries[k] : k \in DOMAIN entries}

\* One pass of the loop leaves a frame as it is or appends one entry to it.
PassAppends ==
    \A i \in DOMAIN frames :
        /\ i \in DOMAIN frames'
        /\ \/ frames'[i] = frames[i]
           \/ /\ Len(frames'[i]) = Len(frames[i]) + 1
              /\ SubSeq(frames'[i], 1, Len(frames[i])) = frames[i]

\* After the loop every frame holds the entries that the loop holds when it
\* visits the drivers in the order "1", "44", "16".
SameEntries ==
    LET built == build_frames(time_grid, pos_data, car_data, results, rotation_deg)
    IN /\ DOMAIN frames = DOMAIN built
       /\ \A i \in DOMAIN frames :
              /\ Len(frames[i]) = Len(built[i])
              /\ entry_set(frames[i]) = entry_set(built[i])

\* C22: in the loop over the drivers every write to frames[i] appends one
\* driver entry and never removes or reorders the entries before it, and the
\* frames after the loop do not depend on the order in which the drivers
\* were visited: every frame index holds the same set of driver entries.
C22_OrderIndependent ==
    /\ [][pc = "loop" => PassAppends]_vars
    /\ [](pc = "looped" => SameEntries)

\* The loop has visited three drivers in another order than "1", "44", "16"
\* and a frame holds the entries of all three.
C22_Witness ==
    /\ pc = "looped"
    /\ frames # build_frames(time_grid, pos_data, car_data, results, rotation_deg)
    /\ \E i \in DOMAIN frames : Len(frames[i]) = 3

\* ------------------------------------------------------ properties: agent

\* A completion call that raises ends the run with the apology, and leaves
\* tools_used and the messages as they were.
RaiseEndsRun ==
    agent'.response.kind = "raise"
        => /\ agent'.pc = "returned"
           /\ agent'.reply = [text |-> APOLOGY]
           /\ agent'.tools_used = agent.tools_used
           /\ agent'.messages = agent.messages

\* C23: whatever the model answers, run_agent makes at most five completion
\* calls and is no longer in its loop after the fifth, and a completion call
\* that raises ends the run at once with the apology as the reply and the
\* tools used so far.
C23_AtMostFiveCalls ==
    /\ [](agent.pc # "idle"
             => /\ agent.round_num <= 5
                /\ agent.round_num = 5 => agent.pc # "running")
    /\ [][RaiseEndsRun]_vars

\* The model asked for tools in each of its five responses.
C23_Witness ==
    /\ agent.pc = "returned"
    /\ agent.round_num = 5
    /\ agent.response.kind = "message"
    /\ agent.response.tool_calls # <<>>
    /\ Len(agent.tools_used) >= 5

\* The names of the tool calls the assistant messages of msgs ask for, in
\* the order of the requests.
RECURSIVE requested_names(_, _)
requested_names(msgs, m) ==
    IF m > Len(msgs) THEN <<>>
    ELSE (IF "tool_calls" \in DOMAIN msgs[m]
          THEN [k \in DOMAIN msgs[m].tool_calls |-> msgs[m].tool_calls[k].name]
          ELSE <<>>)
         \o requested_names(msgs, m + 1)

\* Each tool call of each assistant message is answered by the tool message
\* at its place after the assistant message, and by no other message.
CallsAnswered ==
    /\ \A m \in DOMAIN agent.messages :
          "tool_calls" \in DOMAIN agent.messages[m]
              => \A k \in DOMAIN agent.messages[m].tool_calls :
                    /\ m + k \in DOMAIN agent.messages
                    /\ agent.messages[m + k].role = "tool"
                    /\ agent.messages[m + k].tool_call_id
                           = agent.messages[m].tool_calls[k].id
    /\ Cardinality({m \in DOMAIN agent.messages : agent.messages[m].role = "tool"})
           = Len(requested_names(agent.messages, 1))
    /\ agent.tools_used = requested_names(agent.messages, 1)

\* C29: every tool call the model asks for, also one that names an unknown
\* tool or whose arguments are not valid JSON, is answered by exactly one
\* tool message with its tool_call_id, in the order of the requests, after
\* the assistant message and before the next completion call, and
\* tools_used lists the requested names in that order.
C29_EveryCallAnswered == agent.pc # "idle" => CallsAnswered

\* What holds: the calls are answered in every run that no tool has ended
\* with an exception.
AnsweredUnlessRaised == agent.pc \in {"running", "returned"} => CallsAnswered

\* A run with an unknown tool and arguments that are not JSON, all answered.
UnknownToolAnswered ==
    /\ agent.pc = "returned"
    /\ \E m \in DOMAIN agent.messages :
          /\ agent.messages[m].role = "tool"
          /\ agent.messages[m].content = [text |-> "Unknown tool: get_fuel_load"]

\* The fifth completion call raised after four rounds of tool calls.
RaisedInLastRound ==
    /\ agent.pc = "returned"
    /\ agent.round_num = 5
    /\ agent.response.kind = "raise"
    /\ Len(agent.tools_used) >= 4

\* ---------------------------------------------------- properties: service

\* C30: after any sequence of loads, is_loaded holds exactly when a load has
\* succeeded, race_state raises RuntimeError while none has and is otherwise
\* the state the most recent successful load built, a failed load having
\* left the cached state as it was; get_instance has always returned the
\* same object.
C30_CacheFollowsLoads ==
    /\ is_loaded(service) <=> service.succeeded > 0
    /\ service.succeeded = 0 => race_state(service) = [kind |-> "RuntimeError"]
    /\ service.succeeded > 0 => race_state(service) = service.last_built
    /\ Cardinality(service.returned) <= 1
    /\ service.returned \subseteq {service.instance}

\* A load has failed after one that succeeded, and the service was fetched
\* more than once.
C30_Witness ==
    /\ service.succeeded > 0
    /\ service.loads = service.last_built.load + 1
    /\ service.response = "500"
    /\ service.returned # {}

\* ----------------------------------------------------- properties: roster

\* The retired flag of driver d at time t, the lookups being those of the
\* session.
RetiredAt(d, t) ==
    get_standings_at_time(t, <<d>>, build_position_lookup(laps), build_lap_lookup(laps),
                          build_cumtime_lookup(laps), retired_drivers(results))[1].retired

\* C25: with the lookups fixed, a driver that is marked retired at one query
\* time is marked retired at every later one, and a driver whose final
\* status is "Finished" or contains "Lap" is marked retired at no time.
C25_RetiredMonotone ==
    called =>
      \A i \in Idx :
        /\ standings[i].retired
              => \A t \in QueryTimes(laps, results) :
                    t >= session_time => RetiredAt(standings[i].driver, t)
        /\ results[standings[i].driver] \in {"Finished", "+1 Lap", "Lapped"}
              => /\ ~standings[i].retired
                 /\ \A t \in QueryTimes(laps, results) :
                       ~RetiredAt(standings[i].driver, t)

\* A driver is marked retired before the last query time, beside a lapped
\* driver whose last lap ended earlier still.
C25_Witness ==
    /\ called
    /\ \E i, j \in Idx :
          /\ standings[i].retired
          /\ \E t \in QueryTimes(laps, results) : t > session_time
          /\ results[standings[j].driver] = "Lapped"
          /\ LastKnown(standings[j].driver) # None
          /\ session_time > LastKnown(standings[j].driver) + 120000

\* C26: a non-finishing driver with no cumulative-time entry is not marked
\* retired, whatever the query time, and stands before every retired entry.
C26_NoTimeNotRetired ==
    called =>
      \A i \in Idx :
        results[standings[i].driver] = "Retired" /\ LastKnown(standings[i].driver) = None
          => /\ ~standings[i].retired
             /\ \A j \in Idx : standings[j].retired => i < j

\* A non-finishing driver without a completed lap stands before a retired
\* one.
C26_Witness ==
    /\ called
    /\ \E i, j \in Idx :
          /\ results[standings[i].driver] = "Retired"
          /\ LastKnown(standings[i].driver) = None
          /\ laps[standings[i].driver] # <<>>
          /\ standings[j].retired
          /\ i < j

\* C27: the list has one entry for each driver of the roster and no other,
\* every entry has a gap, an interval and a retired flag, and none has a
\* cum_time.
C27_OneEntryPerDriver ==
    called =>
      /\ Len(standings) = Cardinality(DOMAIN results)
      /\ {standings[i].driver : i \in Idx} = DOMAIN results
      /\ \A i \in Idx :
            /\ {"gap", "interval", "retired"} \subseteq DOMAIN standings[i]
            /\ "cum_time" \notin DOMAIN standings[i]

\* A roster of three drivers, which the list gives with the third driver of
\* the results first and a retired driver last.
C27_Witness ==
    /\ called
    /\ Len(standings) = 3
    /\ standings[1].driver = "LEC"
    /\ standings[3].retired

\* ------------------------------------------------- properties: leader lap

\* C28: over the frames of the replay endpoint, taken by increasing index,
\* the reported lap, which is the lap of the first standings entry and 1
\* for empty standings, never decreases.
C28_LapNeverDecreases ==
    pc = "served" =>
      \A i, j \in DOMAIN frames_out : i < j => frames_out[i].lap <= frames_out[j].lap

\* What holds: the reported lap is the lap of the first standings entry,
\* and it never decreases in a race whose drivers all finish.
LapOfFirstEntry ==
    pc = "served" =>
      /\ \A i \in DOMAIN frames_out :
            frames_out[i].standings # <<>>
               => frames_out[i].lap = frames_out[i].standings[1].l
      /\ retired_drivers(results) = {}
            => \A i, j \in DOMAIN frames_out :
                  i < j => frames_out[i].lap <= frames_out[j].lap

\* The leader is marked retired in a frame, and the driver that takes the
\* first place is on an earlier lap than the leader was.
LapFallsWithRetirement ==
    /\ pc = "served"
    /\ \E i, j \in DOMAIN frames_out :
          /\ i < j
          /\ frames_out[i].standings[1].d = "VER"
          /\ frames_out[j].standings[1].d = "HAM"
          /\ frames_out[j].standings[2].retired
          /\ frames_out[i].lap = 2
          /\ frames_out[j].lap = 1

\* ----------------------------------------------------- properties: build

\* build_replay_data has returned its meta to the endpoint.
Returned == pc \in {"built", "served"}

\* The position table of driver num has its three columns.
WellFormedPos(num) ==
    \A k \in DOMAIN pos_data[num] : {"SessionTime", "X", "Y"} \subseteq DOMAIN pos_data[num][k]

\* The number of valid position samples of driver num.
ValidCount(num) ==
    IF num \notin DOMAIN pos_data THEN 0
    ELSE IF ~WellFormedPos(num) THEN 0
    ELSE Cardinality(SampleTimes(num))

\* The driver number of the first row of results; "" for an empty table.
FirstNumber ==
    IF DOMAIN results = {} THEN ""
    ELSE DriverNumbers[SetMin({i \in DOMAIN Drivers : Drivers[i] \in DOMAIN results})]

\* One lap duration x 4, the duration in seconds: the race span divided by
\* the number of laps.
OneLapPoints ==
    LET m == SetMax({1} \cup UNION {{laps[d][k].LapNumber : k \in DOMAIN laps[d]} :
                                      d \in DriverSet})
    IN ((race_end - race_start) * 4) \div (1000 * m)

\* C14 as stated: without a fastest-lap outline, the outline is empty when
\* no valid position sample exists, and when one exists it is not empty and
\* has at most one lap duration x 4 points.
C14_FallbackAnyDriver ==
    Returned /\ telemetry = <<>> =>
      IF \E num \in DOMAIN pos_data : ValidCount(num) > 0
      THEN /\ Len(track_outline.x) >= 1
           /\ Len(track_outline.x) <= OneLapPoints
      ELSE Len(track_outline.x) = 0

\* C14, amended: without a fastest-lap outline, the outline is made of the
\* valid position samples of the first driver of the results: it is empty
\* when the results are empty or that driver has no valid sample, and
\* otherwise it is not empty and has at most one lap duration x 4 points.
C14_FallbackFirstDriver ==
    Returned /\ telemetry = <<>> =>
      /\ Len(track_outline.x) = Len(track_outline.y)
      /\ IF ValidCount(FirstNumber) > 0
         THEN /\ Len(track_outline.x) >= 1
              /\ Len(track_outline.x) <= OneLapPoints
              /\ Len(track_outline.x) <= ValidCount(FirstNumber)
         ELSE Len(track_outline.x) = 0

\* The first driver has more valid samples than one lap takes, and the
\* outline is cut.
C14_Witness ==
    /\ Returned
    /\ telemetry = <<>>
    /\ ValidCount(FirstNumber) > OneLapPoints
    /\ Len(track_outline.x) = OneLapPoints
    /\ OneLapPoints >= 1

\* The mean of the car positions of all frames.
CarCentre ==
    LET all == all_positions(frames, Len(time_grid) - 1)
    IN [x |-> nanmean([k \in DOMAIN all |-> all[k].x]),
        y |-> nanmean([k \in DOMAIN all |-> all[k].y])]

\* The point (px, py) turned by 90 degrees about c.
Turn90(px, py, c) ==
    [x |-> RatSub(c.x, RatSub(Rat(py, 1), c.y)),
     y |-> RatAdd(c.y, RatSub(Rat(px, 1), c.x))]

CornersAboutCarCentre ==
    Returned /\ rotation_deg = 90 /\ corners # <<>> =>
      \A k \in DOMAIN corners :
         /\ corner_data.x[k] = Turn90(corners[k].X, corners[k].Y, CarCentre).x
         /\ corner_data.y[k] = Turn90(corners[k].X, corners[k].Y, CarCentre).y

OutlineAboutCarCentre ==
    Returned /\ rotation_deg = 90 /\ telemetry # <<>> =>
      \A k \in DOMAIN telemetry[1] :
         /\ track_outline.x[k] = Turn90(telemetry[1][k].X, telemetry[1][k].Y, CarCentre).x
         /\ track_outline.y[k] = Turn90(telemetry[1][k].X, telemetry[1][k].Y, CarCentre).y

\* C15: the corner markers and the track outline are rotated by the rotation
\* of the circuit about the same centre, the mean x and mean y of the car
\* positions.
C15_SameCentre == CornersAboutCarCentre /\ OutlineAboutCarCentre

\* C16: build_replay_data never returns a bundle for a session with no lap
\* row or with an empty results table.
C16_ConstructionFatal ==
    (\A d \in DriverSet : laps[d] = <<>>) \/ DOMAIN results = {} => ~Returned

\* The position table or the telemetry table of driver num cannot be used.
Malformed(num) ==
    \/ num \in DOMAIN pos_data /\ ~WellFormedPos(num)
    \/ num \in DOMAIN car_data
         /\ \E k \in DOMAIN car_data[num] : "SessionTime" \notin DOMAIN car_data[num][k]

\* C17: when the tables of exactly one driver are malformed and another
\* driver has a position at the start of the race, the build returns, no
\* frame has an entry of the malformed driver, and every other driver has
\* its entry in every frame of a time within its samples.
C17_PartialFailure ==
    \A bad \in DOMAIN pos_data :
       (/\ pc # "start"
        /\ DOMAIN results = DriverSet
        /\ Malformed(bad)
        /\ \A n \in (DOMAIN pos_data) \ {bad} : ~Malformed(n)
        /\ LapStarts # {} /\ LapEnds # {}
        /\ \E n \in (DOMAIN pos_data) \ {bad} : InSampleRange(n, SetMin(LapStarts)))
       => /\ Returned
          /\ \A i \in DOMAIN frames :
                /\ EntriesOf(bad, i) = {}
                /\ \A n \in (DOMAIN pos_data) \ {bad} :
                      InSampleRange(n, time_grid[i + 1]) =>
                         Cardinality(EntriesOf(n, i)) = 1

\* The entries of a lookup sequence carry timestamps that never decrease.
Ascending(entries) ==
    \A i, j \in DOMAIN entries : i < j => entries[i].t <= entries[j].t

\* C20: whatever the order of the rows in the raw lap table, each driver's
\* sequence of the lap, position, compound and cumulative-time lookups is
\* ordered by non-decreasing timestamp.
C20_LookupsAscending ==
    \A d \in drivers_of(laps) :
        /\ Ascending(build_lap_lookup(laps)[d])
        /\ Ascending(build_position_lookup(laps)[d])
        /\ Ascending(build_compound_lookup(laps)[d])
        /\ Ascending(build_cumtime_lookup(laps)[d])

\* A query has been answered from a table whose rows of the driver come
\* latest lap first, and the lookup holds both laps.
C20_Witness ==
    /\ point.kind = "compound"
    /\ Len(laps[point.driver]) = 2
    /\ laps[point.driver][1].LapNumber > laps[point.driver][2].LapNumber
    /\ Len(build_compound_lookup(laps)[point.driver]) = 2

\* ------------------------------------------------ properties: race state

\* The two race states have the same rows of every lap up to lap n.
AgreeUpTo(n) ==
    \A d \in DriverSet : driver_laps(laps, d, n) = driver_laps(other_laps, d, n)

\* The query methods of RaceState.
QueryMethods ==
    {"get_standings", "get_driver_info", "get_lap_times", "get_pit_stops",
     "get_stints", "get_tyre_degradation", "get_gap_to_driver", "get_track_status",
     "get_weather", "get_race_summary", "get_strategy_options",
     "get_position_history", "compare_drivers"}

\* The methods that read the race distance or place a timestamp on a lap.
WholeRaceMethods == {"get_track_status", "get_race_summary", "get_strategy_options"}

\* C18: a query with as_of_lap = N gives the same result in two race
\* states whose lap rows agree on every lap up to N.
C18_AsOfLapOnly ==
    (answer.kind \in QueryMethods /\ AgreeUpTo(as_of_lap)) =>
        answer.mine = answer.other

\* The methods that only read the rows up to as_of_lap do give the same
\* result in both race states.
FilteredMethodsAgree ==
    (answer.kind \in QueryMethods \ WholeRaceMethods /\ AgreeUpTo(as_of_lap)) =>
        answer.mine = answer.other

\* The track status of a lap differs between a race and the same race
\* stopped after that lap.
TrackStatusDiffers ==
    /\ answer.kind = "get_track_status"
    /\ AgreeUpTo(as_of_lap)
    /\ other_laps = Cut(laps, as_of_lap)
    /\ answer.mine.history # answer.other.history

\* C19: the schemas a tool call was offered, TOOL_SCHEMAS, are exactly ten,
\* no two of the same name, and their names are the ten names of the tools.
C19_TenTools ==
    answer.kind = "execute_tool" =>
        LET offered == answer.args.tools
        IN /\ Len(offered) = 10
           /\ \A i, j \in DOMAIN offered : i # j => offered[i].name # offered[j].name
           /\ {offered[i].name : i \in DOMAIN offered}
                = {"get_race_standings", "get_driver_info", "get_lap_times",
                   "get_pit_stop_history", "get_tyre_strategy",
                   "get_gap_between_drivers", "get_track_status",
                   "get_weather_conditions", "get_race_summary", "compare_drivers"}

\* The tool of the tenth schema has been called and has answered with a
\* comparison of the two drivers.
C19_Witness ==
    /\ answer.kind = "execute_tool"
    /\ answer.args.tool_name = TOOL_SCHEMAS[10].name
    /\ answer.mine.cmp.driver_a.driver = answer.args.arguments.driver_a

\* The laps of the window of get_gap_to_driver at which both drivers have a
\* cumulative time.
gap_window(lp, driver_a, driver_b, n, last_n) ==
    {lap \in 1..n : /\ lap >= n - last_n + 1
                    /\ cumulative_time(lp, driver_a, lap) # None
                    /\ cumulative_time(lp, driver_b, lap) # None}

\* The time between the two drivers at the end of a lap.
abs_gap(lp, driver_a, driver_b, lap) ==
    Abs(cumulative_time(lp, driver_a, lap) - cumulative_time(lp, driver_b, lap))

\* C24: when get_gap_to_driver says "increasing" the time between the two
\* drivers is larger at the last lap of the window than at its first lap,
\* when it says "decreasing" it is smaller, and for a gap that is not zero
\* the gap, the driver ahead and the trend are the same for (a, b) and for
\* (b, a).
C24_TrendOfAbsoluteGap ==
    answer.kind = "get_gap_to_driver" /\ answer.mine.gap # None =>
        LET a == answer.args[1]
            b == answer.args[2]
            w == gap_window(laps, a, b, as_of_lap, 5)
            lo == CHOOSE lap \in w : \A other \in w : lap <= other
            hi == CHOOSE lap \in w : \A other \in w : lap >= other
            swapped == get_gap_to_driver(laps, b, a, as_of_lap, 5)
        IN /\ answer.mine.trend = "increasing"
                 => abs_gap(laps, a, b, hi) > abs_gap(laps, a, b, lo)
           /\ answer.mine.trend = "decreasing"
                 => abs_gap(laps, a, b, hi) < abs_gap(laps, a, b, lo)
           /\ answer.mine.gap # 0
                 => /\ swapped.gap = answer.mine.gap
                    /\ swapped.ahead = answer.mine.ahead
                    /\ swapped.trend = answer.mine.trend

\* What holds: the gap and the driver ahead are the same for (a, b) and
\* (b, a) when the gap is not zero, and the trend is that of the signed
\* difference a - b, so that it turns around with the arguments.
TrendOfSignedGap ==
    answer.kind = "get_gap_to_driver" /\ answer.mine.gap # None =>
        LET a == answer.args[1]
            b == answer.args[2]
            w == gap_window(laps, a, b, as_of_lap, 5)
            lo == CHOOSE lap \in w : \A other \in w : lap <= other
            hi == CHOOSE lap \in w : \A other \in w : lap >= other
            signed(lap) == cumulative_time(laps, a, lap) - cumulative_time(laps, b, lap)
            swapped == get_gap_to_driver(laps, b, a, as_of_lap, 5)
        IN /\ answer.mine.trend = "increasing" => signed(hi) - signed(lo) >= TREND_STABLE
           /\ answer.mine.trend = "decreasing" => signed(lo) - signed(hi) >= TREND_STABLE
           /\ answer.mine.gap # 0
                 => /\ swapped.gap = answer.mine.gap
                    /\ swapped.ahead = answer.mine.ahead
           /\ answer.mine.trend = "increasing" => swapped.trend = "decreasing"
           /\ answer.mine.trend = "decreasing" => swapped.trend = "increasing"

\* The driver ahead pulls away and the answer says "decreasing".
GapGrowsTrendDecreasing ==
    /\ answer.kind = "get_gap_to_driver"
    /\ answer.mine.gap # None
    /\ answer.mine.trend = "decreasing"
    /\ answer.mine.ahead = answer.args[1]
    /\ abs_gap(laps, answer.args[1], answer.args[2], as_of_lap)
          > abs_gap(laps, answer.args[1], answer.args[2], 1)

====
